---- MODULE Spec2Model ----
(***************************************************************************)
(* Verification model of the interactive blemish-removal tool              *)
(* (blemish_removal.cpp): the texture scorer computePatchVariance, the     *)
(* donor search selectBestPatch, the mouse callback onMouse and the        *)
(* display loop of runBlemishRemoval / main.                               *)
(*                                                                         *)
(* Images are cv::Mat values: a record [rows, cols, px] whose px is the    *)
(* row-major pixel array.  A pixel is an index into Palette (a BGR         *)
(* triple); the extra value Blended stands for a byte triple computed by   *)
(* the Poisson solver inside cv::seamlessClone, whose value this model     *)
(* does not determine.                                                     *)
(*                                                                         *)
(* Further programs of the repository, each with its own variables and     *)
(* specification: roi_selector.cpp (SpecRoi), sunglasses++.cpp (SpecSun,   *)
(* and applyGlasses alone in SpecAlpha), chroma_keying.cpp (the loop of    *)
(* runChromaKey in SpecChroma, createKeyMask alone in SpecKeyMask),        *)
(* interactive_scaler.cpp (SpecScaler) and autofocus_evaluator.cpp         *)
(* (SpecFocus).  While one program runs, the variables of the others rest  *)
(* at their idle values.                                                   *)
(***************************************************************************)
EXTENDS Integers, Sequences, FiniteSets, TLC

VARIABLES
    \* ---- computePatchVariance applied to one patch ----
    patchKind,      \* how the scored patch was drawn: "uniform" / "checker" / "none"
    patchArg,       \* the parameters it was drawn with
    patch,          \* the patch handed to computePatchVariance
    score,          \* its return value: <<v>> after the call, <<>> before
    \* ---- selectBestPatch applied to one (image, center, radius) ----
    selImage, selCenter, selRadius,
    selResult,      \* the returned cv::Mat (NotCalled before the call)
    \* ---- the running tool ----
    pc,             \* position of main(): "main", "run", "loop", "save", "exited",
                    \* "aborted" (std::terminate); "off" when the tool is not modelled
    fileImage,      \* what cv::imread decodes from the input path (EmptyMat: unreadable)
    heap,           \* pixel buffers: buffer id -> contents (cv::Mat headers share them)
    input,          \* main's `input` / runBlemishRemoval's `image` (a buffer id, 0: none)
    g_sourceImage,  \* the global cv::Mat (a buffer id, 0: empty)
    original,       \* runBlemishRemoval's `original` (a buffer id, 0: not yet made)
    windowOpen,     \* the HighGUI window exists and has onMouse attached
    outputFile,     \* contents of the output path (EmptyMat: nothing written)
    exitStatus,     \* "none", "EXIT_SUCCESS", "EXIT_FAILURE", "terminate"
    errLog,         \* number of "ERROR:" lines written to std::cerr
    key,            \* runBlemishRemoval's local `key` (NoKey before the first poll)
    applied,        \* ghost: click points cloned at since the last reset, in order
    skipped,        \* ghost: number of left-clicks that found no donor
    undone,         \* ghost: some reset has discarded a correction
    escImage,       \* ghost: contents of g_sourceImage when the loop was left
    \* ---- roi_selector.cpp ----
    roiPc,          \* position of main(): "main", "loop", "exited"; "off": not modelled
    roiInput,       \* what cv::imread decodes from input_path (EmptyMat: unreadable)
    state,          \* main's MouseState: image, display, start_pt, end_pt, drawing
    roiKey,         \* main's local `key`
    roiOutput,      \* contents of output_path (EmptyMat: nothing written)
    roiLog,         \* last line printed: "none", "saved", "info", "error"
    roiExit,        \* "none", "0" (return 0), "EXIT_FAILURE"
    \* ---- sunglasses++.cpp: main ----
    sunPc,          \* "main", "loop" (top of while), "wait" (in cv::waitKey), "exited"; "off"
    staticImages,   \* index -> the preloaded image is non-empty (index 0: never loaded)
    capOpened,      \* cap.isOpened()
    g_srcIdx,       \* the "Source" trackbar's variable
    multiTracker,   \* the trackers of the MultiTracker, in order: [box, init, fresh]
    trackersInited,
    frameCount,
    faceBoxes,
    sunKey,         \* the loop's `key` (NoKey before the first poll)
    sunExit,        \* "none", "0", "-1"
    shown,          \* what cv::imshow displayed last: <<>> or <<source index, boxes>>
    redetected,     \* ghost: the last pass read a webcam frame and ran detectFaces on it
    detected,       \* ghost: what that detectFaces call returned
    countSeen,      \* ghost: frameCount as handed to decideWhetherToRedetect last
    \* ---- sunglasses++.cpp: applyGlasses on one face ----
    glassesIn,      \* the arguments: [base, glassesIdx, glassesAlpha, fw] (<<>>: not modelled)
    glassesOut      \* <<>> before the call, then <<[drawn, mFrameRes, mLensRes, alphaCh]>>
                    \* (drawn is FALSE when applyGlasses returned at once)
    ,
    \* ---- chroma_keying.cpp: main / runChromaKey ----
    ckPc,           \* "open" (entering runChromaKey), "loop" (top of while), "returned"
                    \* (runChromaKey returned), "exited"; "off"
    ckRun,          \* which of main's two runChromaKey calls: 1 or 2
    ckVideos,       \* run -> number of frames the video file decodes to
    ckSeekable,     \* cap.set(CAP_PROP_POS_FRAMES, 0) takes the video back to frame 0
    ckPos,          \* index of the frame the next `cap >> frame` delivers
    ckFrame,        \* runChromaKey's `frame`: a frame index, 0 when empty
    g_currentFrame, \* the global copy used by the mouse callback (0: empty)
    ckParams,       \* g_keyR, g_keyG, g_keyB, g_tolerance, g_softness, g_colorCast, g_seamless
    ckKey,          \* the loop's `c` (NoKey before the first poll)
    ckShown,        \* the composite shown last: <<>> or <<run, frame index, parameters>>
    ckSaved,        \* contents of <stem>.example.jpg of the current run (<<>>: none)
    ckExit,         \* "none", "EXIT_SUCCESS", "EXIT_FAILURE"
    \* ---- chroma_keying.cpp: createKeyMask as a function ----
    keyIn,          \* [frame, keyBGR, tolerance]
    keyOut,         \* <<>> before the call, then <<[keyHSV, lower, upper, mask]>>
    \* ---- interactive_scaler.cpp ----
    scPc,           \* "start", "loop" (the event loop), "exited"; "off"
    originalImage,  \* <<>> or <<[w, h]>>: the loaded image
    currentScaled,  \* <<>> or <<[w, h, factor100]>>: originalImage resized to w x h
                    \* by factor100 / 100
    scalePercent,   \* trackbar position 0..kMaxScale
    scaleType,      \* trackbar position 0..kMaxType
    scFile,         \* contents of outputPath (<<>>: never written)
    scKey,          \* last value of `key`
    scExit,         \* "none", "0", "EXIT_FAILURE", "terminate" (uncaught cv::Exception)
    \* ---- autofocus_evaluator.cpp ----
    afPc,           \* "start", "loop" (at `while (cap.read(frame))`), "done"; "off"
    afVideo,        \* the frames the video decodes to, each [tag, m] with m its four
                    \* focus measures
    afHeap,         \* pixel buffers; buffer 1 is the one `frame` owns
    idx,            \* number of frames read
    best,           \* <<best1, best2, best3, best4>>
    fbest,          \* <<fbest1, fbest2, fbest3, fbest4>>
    fMats,          \* <<f1, f2, f3, f4>>: a buffer of afHeap each, 0 when empty
    afReport,       \* <<>> or <<[bestLine, frameNumberLine]>>: the two report lines
    afExit,         \* "none", "EXIT_SUCCESS", "EXIT_FAILURE", "terminate"
    \* ---- panorama_stitching.cpp ----
    panoPc,         \* "collect", "load", "stitch", "save", "done"; "off"
    panoDirOk,      \* inputDir exists and is a directory
    panoEnum,       \* the directory's entries in the order directory_iterator yields them
    imageFiles,     \* main's vector of paths
    images,         \* main's vector of loaded images (each named by its file)
    panoStatus,     \* what stitcher->stitch returned ("none" before the call)
    panoWrites,     \* number of cv::imwrite calls made for the panorama
    panoFile,       \* contents of panorama.jpg: <<>> or the images stitched
    panoExit,       \* "none", "EXIT_SUCCESS", "EXIT_FAILURE"
    \* ---- document_scanner.cpp: sortCorners / computeDocumentSize as functions ----
    cornersIn,      \* the vector handed to sortCorners
    cornersOut,     \* <<>> before the call, then <<[sorted, docSize]>>
    \* ---- document_scanner.cpp: findLargestQuad as a function ----
    quadIn,         \* the contours cv::findContours returned, each [area, approx]
    quadOut,        \* <<>> before the call, then <<bestQuad>>
    \* ---- qrcode_detection.cpp ----
    qrPc,           \* "main", "draw", "show" (in cv::waitKey(0)), "done"; "off"
    vertices,       \* the corner vector detectAndDecode filled
    opencvData,     \* the decoded text ("" when nothing was decoded)
    qrAccessed,     \* indices of `vertices` read so far
    qrLines,        \* number of cv::line calls made on annotated_IDCard
    qrLog,          \* the lines printed on std::cout, in order
    qrKey,          \* what cv::waitKey(0) returned (NoKey before)
    qrFile,         \* FALSE until QRCodeAnnotated.jpg is written
    qrExit,         \* "none", "0", "EXIT_FAILURE", "SIGSEGV"
    \* ---- feature_alignment.cpp: matchAndFilter / computeHomography as functions ----
    matchIn,        \* what matcher->match put into `matches`
    matchOut        \* <<>> before the call, then <<[matches, read]>>: the vector
                    \* matchAndFilter leaves and the (queryIdx, trainIdx) pairs
                    \* computeHomography indexes the keypoints with

scoreVars == <<patchKind, patchArg, patch, score>>
selVars   == <<selImage, selCenter, selRadius, selResult>>
toolVars  == <<pc, fileImage, heap, input, g_sourceImage, original, windowOpen,
               outputFile, exitStatus, errLog, key, applied, skipped, undone,
               escImage>>
roiVars   == <<roiPc, roiInput, state, roiKey, roiOutput, roiLog, roiExit>>
sunVars   == <<sunPc, staticImages, capOpened, g_srcIdx, multiTracker, trackersInited,
               frameCount, faceBoxes, sunKey, sunExit, shown, redetected, detected,
               countSeen>>
baseVars  == <<scoreVars, selVars, toolVars>>
alphaVars == <<glassesIn, glassesOut>>
ckVars    == <<ckPc, ckRun, ckVideos, ckSeekable, ckPos, ckFrame, g_currentFrame,
               ckParams, ckKey, ckShown, ckSaved, ckExit>>
kmVars    == <<keyIn, keyOut>>
scVars    == <<scPc, originalImage, currentScaled, scalePercent, scaleType, scFile,
               scKey, scExit>>
afVars    == <<afPc, afVideo, afHeap, idx, best, fbest, fMats, afReport, afExit>>
panoVars  == <<panoPc, panoDirOk, panoEnum, imageFiles, images, panoStatus, panoWrites,
               panoFile, panoExit>>
docVars   == <<cornersIn, cornersOut>>
quadVars  == <<quadIn, quadOut>>
qrVars    == <<qrPc, vertices, opencvData, qrAccessed, qrLines, qrLog, qrKey, qrFile, qrExit>>
matchVars == <<matchIn, matchOut>>
demoVars  == <<roiVars, sunVars, alphaVars, ckVars, kmVars, scVars, afVars, panoVars, docVars, quadVars, qrVars, matchVars>>
notRoiVars == <<baseVars, sunVars, alphaVars, ckVars, kmVars, scVars, afVars, panoVars, docVars, quadVars, qrVars, matchVars>>
notSunVars == <<baseVars, roiVars, alphaVars, ckVars, kmVars, scVars, afVars, panoVars, docVars, quadVars, qrVars, matchVars>>
notAlphaVars == <<baseVars, roiVars, sunVars, ckVars, kmVars, scVars, afVars, panoVars, docVars, quadVars, qrVars, matchVars>>
notCkVars == <<baseVars, roiVars, sunVars, alphaVars, kmVars, scVars, afVars, panoVars, docVars, quadVars, qrVars, matchVars>>
notKmVars == <<baseVars, roiVars, sunVars, alphaVars, ckVars, scVars, afVars, panoVars, docVars, quadVars, qrVars, matchVars>>
notScVars == <<baseVars, roiVars, sunVars, alphaVars, ckVars, kmVars, afVars, panoVars, docVars, quadVars, qrVars, matchVars>>
notAfVars == <<baseVars, roiVars, sunVars, alphaVars, ckVars, kmVars, scVars, panoVars, docVars, quadVars, qrVars, matchVars>>
notPanoVars == <<baseVars, roiVars, sunVars, alphaVars, ckVars, kmVars, scVars, afVars, docVars, quadVars, qrVars, matchVars>>
notDocVars == <<baseVars, roiVars, sunVars, alphaVars, ckVars, kmVars, scVars, afVars, panoVars, quadVars, qrVars, matchVars>>
notQuadVars == <<baseVars, roiVars, sunVars, alphaVars, ckVars, kmVars, scVars, afVars, panoVars, docVars, qrVars, matchVars>>
notQrVars == <<baseVars, roiVars, sunVars, alphaVars, ckVars, kmVars, scVars, afVars, panoVars, docVars, quadVars, matchVars>>
notMatchVars == <<baseVars, roiVars, sunVars, alphaVars, ckVars, kmVars, scVars, afVars, panoVars, docVars, quadVars, qrVars>>
vars      == <<scoreVars, selVars, toolVars, demoVars>>

---------------------------------------------------------------------------
(* Pixels and matrices *)

\* BGR triples the test images are painted with.
Palette == << <<0, 0, 0>>,          \* 1 black
              <<128, 128, 128>>,    \* 2 gray
              <<255, 255, 255>>,    \* 3 white
              <<0, 0, 255>> >>      \* 4 pure red (same V as white)

Colours == 1..Len(Palette)

\* The pixel value that is no palette colour: a triple written by seamlessClone.
Blended == Len(Palette) + 1

EmptyMat == [rows |-> 0, cols |-> 0, px |-> <<>>]

IsEmpty(m) == m.rows = 0 \/ m.cols = 0

\* m.at(y, x)
At(m, x, y) == m.px[y * m.cols + x + 1]

\* A rows x cols matrix painted by f(x, y).
MakeMat(rows, cols, f(_, _)) ==
    [rows |-> rows, cols |-> cols,
     px |-> [k \in 1..(rows * cols) |-> f((k - 1) % cols, (k - 1) \div cols)]]

\* image(cv::Range(y0, y1), cv::Range(x0, x1)), materialised (the code clones it
\* or reads it only).
SubMat(m, x0, y0, x1, y1) ==
    [rows |-> y1 - y0, cols |-> x1 - x0,
     px |-> [k \in 1..((y1 - y0) * (x1 - x0)) |->
                At(m, x0 + ((k - 1) % (x1 - x0)), y0 + ((k - 1) \div (x1 - x0)))]]

Max2(a, b) == IF a >= b THEN a ELSE b

---------------------------------------------------------------------------
(* computePatchVariance *)

\* cv::cvtColor(BGR2HSV) + split: channel 2 is V = max(B, G, R).
ValueChannel(p) == Max2(Palette[p][1], Max2(Palette[p][2], Palette[p][3]))

\* cv::BORDER_DEFAULT = BORDER_REFLECT_101: gfedcb|abcdefgh|gfedcba
Reflect101(i, n) ==
    IF n = 1 THEN 0
    ELSE IF i < 0 THEN -i
    ELSE IF i >= n THEN 2 * (n - 1) - i
    ELSE i

\* Denominator of the scale 1.0 / (255.0 * 3 * 2) handed to cv::Laplacian.
LaplacianScaleDen == 255 * 3 * 2

\* Mutant of LaplacianAt: the aperture-1 kernel [0 1 0; 1 -4 1; 0 1 0]
\* (cv::Laplacian called with ksize = 1).
LaplacianAtAperture1(m, x, y) ==
    LET v(i, j) == ValueChannel(At(m, Reflect101(i, m.cols), Reflect101(j, m.rows)))
    IN  v(x, y - 1) + v(x - 1, y) + v(x + 1, y) + v(x, y + 1) - 4 * v(x, y)

\* Mutant of LaplacianAt: pixels outside the patch read as 0 (BORDER_CONSTANT).
LaplacianAtConstantBorder(m, x, y) ==
    LET v(i, j) == IF i < 0 \/ j < 0 \/ i >= m.cols \/ j >= m.rows THEN 0
                   ELSE ValueChannel(At(m, i, j))
    IN  2 * (v(x - 1, y - 1) + v(x + 1, y - 1) + v(x - 1, y + 1) + v(x + 1, y + 1))
        - 8 * v(x, y)

\* Response of cv::Laplacian with ksize = 3 at (x, y), before scaling: the
\* aperture-3 kernel is [2 0 2; 0 -8 0; 2 0 2].
LaplacianAt(m, x, y) ==
    LET v(i, j) == ValueChannel(At(m, Reflect101(i, m.cols), Reflect101(j, m.rows)))
    IN  2 * (v(x - 1, y - 1) + v(x + 1, y - 1) + v(x - 1, y + 1) + v(x + 1, y + 1))
        - 8 * v(x, y)

\* cv::pow(lap, 2.0, lap2) and cv::sum(lap2)[0], row by row: the squared
\* responses of row y from column x down to 0, and of rows y down to 0.
RECURSIVE SumSquaresRow(_, _, _)
SumSquaresRow(m, y, x) ==
    IF x < 0 THEN 0
    ELSE LET l == LaplacianAt(m, x, y)
         IN  l * l + SumSquaresRow(m, y, x - 1)

RECURSIVE SumSquares(_, _)
SumSquares(m, y) ==
    IF y < 0 THEN 0
    ELSE SumSquaresRow(m, y, m.cols - 1) + SumSquares(m, y - 1)

\* Sum of the squared Laplacian responses, in units of 1 / LaplacianScaleDen^2
\* (the scale is the same positive factor for every pixel of every patch).
computePatchVariance(p) == SumSquares(p, p.rows - 1)

---------------------------------------------------------------------------
(* selectBestPatch *)

\* std::numeric_limits<double>::infinity(), the initial minVariance.
Infinity == -1

\* Mutant of LessThan: var <= minVariance (the last minimal candidate wins).
LessOrEqual(var, minVariance) == minVariance = Infinity \/ var <= minVariance

\* var < minVariance
LessThan(var, minVariance) == minVariance = Infinity \/ var < minVariance

\* kDirs, in units of 1 / DirUnit; x grows to the right, y grows downwards.
DirUnit == 10000

\* Mutant of kDirs: the same eight vectors enumerated from north.
kDirsNorthFirst ==
         << <<0, -10000>>, <<7071, -7071>>, <<10000, 0>>,  <<7071, 7071>>,
            <<0, 10000>>,  <<-7071, 7071>>, <<-10000, 0>>, <<-7071, -7071>> >>

kDirs == << <<10000, 0>>,  <<7071, 7071>>,   <<0, 10000>>,  <<-7071, 7071>>,
            <<-10000, 0>>, <<-7071, -7071>>, <<0, -10000>>, <<7071, -7071>> >>

\* static_cast<int>(q) for the rational q = n / d: truncation towards zero.
TruncDiv(n, d) == IF n >= 0 THEN n \div d ELSE -((-n) \div d)

\* srcCenter for direction d: static_cast<int>(center + d * radius * 2).
SrcCenter(center, d, radius) ==
    << TruncDiv(center[1] * DirUnit + d[1] * radius * 2, DirUnit),
       TruncDiv(center[2] * DirUnit + d[2] * radius * 2, DirUnit) >>

\* Mutant of PatchInBounds: the right and bottom tests off by one
\* (x1 >= image.cols, y1 >= image.rows).
PatchInBoundsOffByOne(image, sc, radius) ==
    LET x0 == sc[1] - radius
        y0 == sc[2] - radius
        x1 == sc[1] + radius + 1
        y1 == sc[2] + radius + 1
    IN  ~(x0 < 0 \/ y0 < 0 \/ x1 >= image.cols \/ y1 >= image.rows)

\* The negation of the `continue` test: the patch around sc lies in the image.
PatchInBounds(image, sc, radius) ==
    LET x0 == sc[1] - radius
        y0 == sc[2] - radius
        x1 == sc[1] + radius + 1
        y1 == sc[2] + radius + 1
    IN  ~(x0 < 0 \/ y0 < 0 \/ x1 > image.cols \/ y1 > image.rows)

\* image(cv::Range(y0, y1), cv::Range(x0, x1)) around sc.
PatchAround(image, sc, radius) ==
    SubMat(image, sc[1] - radius, sc[2] - radius, sc[1] + radius + 1, sc[2] + radius + 1)

\* The body of the for loop over kDirs, from index i on, carrying the locals
\* minVariance and bestPatch.
RECURSIVE SelectLoop(_, _, _, _, _, _)
SelectLoop(image, center, radius, i, minVariance, bestPatch) ==
    IF i > Len(kDirs) THEN bestPatch
    ELSE LET sc == SrcCenter(center, kDirs[i], radius)
         IN  IF ~PatchInBounds(image, sc, radius)
             THEN SelectLoop(image, center, radius, i + 1, minVariance, bestPatch)
             ELSE LET p   == PatchAround(image, sc, radius)
                      var == computePatchVariance(p)
                  IN  IF LessThan(var, minVariance)
                      THEN SelectLoop(image, center, radius, i + 1, var, p)
                      ELSE SelectLoop(image, center, radius, i + 1, minVariance, bestPatch)

selectBestPatch(image, center, radius) ==
    SelectLoop(image, center, radius, 1, Infinity, EmptyMat)

---------------------------------------------------------------------------
(* Inputs of the two pure-function specifications *)

MaxPatchRadius == 3     \* scored patches have side 2r+1, r in 1..MaxPatchRadius
MaxSelRadius == 2       \* radii handed to selectBestPatch

NotCalled == [rows |-> -1, cols |-> -1, px |-> <<>>]

PatchSides == {2 * r + 1 : r \in 1..MaxPatchRadius}

\* A patch of one colour.
UniformPatch(side, c) == MakeMat(side, side, LAMBDA x, y : c)

\* A checkerboard of cell x cell squares, shifted by (ox, oy), alternating lo / hi.
CheckerPatch(side, cell, ox, oy, lo, hi) ==
    MakeMat(side, side,
            LAMBDA x, y : IF (((x + ox) \div cell) + ((y + oy) \div cell)) % 2 = 0
                          THEN lo ELSE hi)

UniformArgs == [side : PatchSides, colour : Colours]

CheckerArgs ==
    {a \in [side : PatchSides, cell : 1..(2 * MaxPatchRadius), ox : 0..(2 * MaxPatchRadius - 1),
            oy : 0..(2 * MaxPatchRadius - 1), lo : Colours, hi : Colours] :
        /\ a.cell < a.side
        /\ a.ox < a.cell /\ a.oy < a.cell
        /\ ValueChannel(a.lo) < ValueChannel(a.hi)}

\* Side of the square images handed to selectBestPatch: room for all eight
\* candidates of the largest radius around the middle.
SelSide == 6 * MaxSelRadius + 2
SelMid == SelSide \div 2

SelImages ==
    { MakeMat(SelSide, SelSide, LAMBDA x, y : 2),
      \* red above the middle band, white below: one V everywhere
      MakeMat(SelSide, SelSide, LAMBDA x, y : IF y < SelMid - 1 THEN 4 ELSE 3),
      \* black left, gray right
      MakeMat(SelSide, SelSide, LAMBDA x, y : IF x < SelMid THEN 1 ELSE 2),
      \* texture everywhere
      MakeMat(SelSide, SelSide, LAMBDA x, y : 1 + ((3 * x * x + 7 * y + x * y) % 3)),
      \* texture on the right and at the bottom, gray top-left quadrant
      MakeMat(SelSide, SelSide,
              LAMBDA x, y : IF x < SelMid /\ y < SelMid THEN 2
                            ELSE 1 + ((x + 2 * y + x * y) % 3)),
      \* one-pixel checkerboard left, two-pixel checkerboard right
      MakeMat(SelSide, SelSide,
              LAMBDA x, y : IF x < SelMid
                            THEN (IF (x + y) % 2 = 0 THEN 1 ELSE 3)
                            ELSE (IF ((x \div 2) + (y \div 2)) % 2 = 0 THEN 1 ELSE 3)),
      \* too small for any donor at the largest radius
      MakeMat(2 * MaxSelRadius + 2, 2 * MaxSelRadius + 3, LAMBDA x, y : 1 + ((x + y) % 3)) }

\* Centres: every column from just left to just right of the image, on rows at
\* the edges, one radius inside them and around the middle.
SelCentreRows == {-1, 0, MaxSelRadius, SelMid - 1, SelMid, SelMid + 1,
                  SelSide - MaxSelRadius - 1, SelSide - 1}
SelCentres == {<<x, y>> : x \in (-1)..SelSide, y \in SelCentreRows}

---------------------------------------------------------------------------
(* Specification SpecScore: computePatchVariance on one drawn patch *)

\* The value of `key` before waitKey has returned: no byte value.
NoKey == 255 + 1

ScoreIdle ==
    /\ patchKind = "none" /\ patchArg = <<>> /\ patch = EmptyMat /\ score = <<>>

SelIdle ==
    /\ selImage = EmptyMat /\ selCenter = <<0, 0>> /\ selRadius = 0
    /\ selResult = NotCalled

ToolIdle ==
    /\ pc = "off" /\ fileImage = EmptyMat /\ heap = <<>>
    /\ input = 0 /\ g_sourceImage = 0 /\ original = 0
    /\ windowOpen = FALSE /\ outputFile = EmptyMat
    /\ exitStatus = "none" /\ errLog = 0 /\ key = NoKey
    /\ applied = <<>> /\ skipped = 0 /\ undone = FALSE /\ escImage = EmptyMat

\* A default-constructed MouseState.
NoMouseState ==
    [image |-> EmptyMat, display |-> [text |-> FALSE, rect |-> <<>>],
     start_pt |-> <<0, 0>>, end_pt |-> <<0, 0>>, drawing |-> FALSE]

RoiIdle ==
    /\ roiPc = "off" /\ roiInput = EmptyMat /\ state = NoMouseState
    /\ roiKey = 0 /\ roiOutput = EmptyMat /\ roiLog = "none" /\ roiExit = "none"

SunIdle ==
    /\ sunPc = "off" /\ staticImages = <<>> /\ capOpened = FALSE /\ g_srcIdx = 0
    /\ multiTracker = <<>> /\ trackersInited = FALSE /\ frameCount = 0
    /\ faceBoxes = <<>> /\ sunKey = NoKey /\ sunExit = "none" /\ shown = <<>>
    /\ redetected = FALSE /\ detected = <<>> /\ countSeen = 0

AlphaIdle == glassesIn = <<>> /\ glassesOut = <<>>

\* The trackbar globals as main leaves them before a run.
ZeroParams ==
    [keyR |-> 0, keyG |-> 0, keyB |-> 0, tolerance |-> 0, softness |-> 0,
     colorCast |-> 0, seamless |-> 0]

CkIdle ==
    /\ ckPc = "off" /\ ckRun = 0 /\ ckVideos = <<>> /\ ckSeekable = FALSE
    /\ ckPos = 0 /\ ckFrame = 0 /\ g_currentFrame = 0 /\ ckParams = ZeroParams
    /\ ckKey = NoKey /\ ckShown = <<>> /\ ckSaved = <<>> /\ ckExit = "none"

KmIdle == keyIn = <<>> /\ keyOut = <<>>

ScIdle ==
    /\ scPc = "off" /\ originalImage = <<>> /\ currentScaled = <<>>
    /\ scalePercent = 0 /\ scaleType = 0 /\ scFile = <<>> /\ scKey = NoKey
    /\ scExit = "none"

AfIdle ==
    /\ afPc = "off" /\ afVideo = <<>> /\ afHeap = <<>> /\ idx = 0
    /\ best = <<>> /\ fbest = <<>> /\ fMats = <<>> /\ afReport = <<>> /\ afExit = "none"

PanoIdle ==
    /\ panoPc = "off" /\ panoDirOk = FALSE /\ panoEnum = <<>> /\ imageFiles = <<>>
    /\ images = <<>> /\ panoStatus = "none" /\ panoWrites = 0 /\ panoFile = <<>>
    /\ panoExit = "none"

DocIdle == cornersIn = <<>> /\ cornersOut = <<>>
QuadIdle == quadIn = <<>> /\ quadOut = <<>>

QrIdle ==
    /\ qrPc = "off" /\ vertices = <<>> /\ opencvData = "" /\ qrAccessed = {}
    /\ qrLines = 0 /\ qrLog = <<>> /\ qrKey = NoKey /\ qrFile = FALSE /\ qrExit = "none"

MatchIdle == matchIn = <<>> /\ matchOut = <<>>

BaseIdle == ScoreIdle /\ SelIdle /\ ToolIdle
DemoIdle == RoiIdle /\ SunIdle /\ AlphaIdle /\ CkIdle /\ KmIdle /\ ScIdle /\ AfIdle /\ PanoIdle /\ DocIdle /\ QuadIdle /\ QrIdle /\ MatchIdle
NotRoiIdle == BaseIdle /\ SunIdle /\ AlphaIdle /\ CkIdle /\ KmIdle /\ ScIdle /\ AfIdle /\ PanoIdle /\ DocIdle /\ QuadIdle /\ QrIdle /\ MatchIdle
NotSunIdle == BaseIdle /\ RoiIdle /\ AlphaIdle /\ CkIdle /\ KmIdle /\ ScIdle /\ AfIdle /\ PanoIdle /\ DocIdle /\ QuadIdle /\ QrIdle /\ MatchIdle
NotAlphaIdle == BaseIdle /\ RoiIdle /\ SunIdle /\ CkIdle /\ KmIdle /\ ScIdle /\ AfIdle /\ PanoIdle /\ DocIdle /\ QuadIdle /\ QrIdle /\ MatchIdle
NotCkIdle == BaseIdle /\ RoiIdle /\ SunIdle /\ AlphaIdle /\ KmIdle /\ ScIdle /\ AfIdle /\ PanoIdle /\ DocIdle /\ QuadIdle /\ QrIdle /\ MatchIdle
NotKmIdle == BaseIdle /\ RoiIdle /\ SunIdle /\ AlphaIdle /\ CkIdle /\ ScIdle /\ AfIdle /\ PanoIdle /\ DocIdle /\ QuadIdle /\ QrIdle /\ MatchIdle
NotScIdle == BaseIdle /\ RoiIdle /\ SunIdle /\ AlphaIdle /\ CkIdle /\ KmIdle /\ AfIdle /\ PanoIdle /\ DocIdle /\ QuadIdle /\ QrIdle /\ MatchIdle
NotAfIdle == BaseIdle /\ RoiIdle /\ SunIdle /\ AlphaIdle /\ CkIdle /\ KmIdle /\ ScIdle /\ PanoIdle /\ DocIdle /\ QuadIdle /\ QrIdle /\ MatchIdle
NotPanoIdle == BaseIdle /\ RoiIdle /\ SunIdle /\ AlphaIdle /\ CkIdle /\ KmIdle /\ ScIdle /\ AfIdle /\ DocIdle /\ QuadIdle /\ QrIdle /\ MatchIdle
NotDocIdle == BaseIdle /\ RoiIdle /\ SunIdle /\ AlphaIdle /\ CkIdle /\ KmIdle /\ ScIdle /\ AfIdle /\ PanoIdle /\ QuadIdle /\ QrIdle /\ MatchIdle
NotQuadIdle == BaseIdle /\ RoiIdle /\ SunIdle /\ AlphaIdle /\ CkIdle /\ KmIdle /\ ScIdle /\ AfIdle /\ PanoIdle /\ DocIdle /\ QrIdle /\ MatchIdle
NotQrIdle == BaseIdle /\ RoiIdle /\ SunIdle /\ AlphaIdle /\ CkIdle /\ KmIdle /\ ScIdle /\ AfIdle /\ PanoIdle /\ DocIdle /\ QuadIdle /\ MatchIdle
NotMatchIdle == BaseIdle /\ RoiIdle /\ SunIdle /\ AlphaIdle /\ CkIdle /\ KmIdle /\ ScIdle /\ AfIdle /\ PanoIdle /\ DocIdle /\ QuadIdle /\ QrIdle

InitScore ==
    /\ \/ /\ patchKind = "uniform"
          /\ patchArg \in UniformArgs
          /\ patch = UniformPatch(patchArg.side, patchArg.colour)
       \/ /\ patchKind = "checker"
          /\ patchArg \in CheckerArgs
          /\ patch = CheckerPatch(patchArg.side, patchArg.cell, patchArg.ox, patchArg.oy,
                                  patchArg.lo, patchArg.hi)
    /\ score = <<>>
    /\ SelIdle /\ ToolIdle /\ DemoIdle

ScorePatch ==
    /\ patchKind # "none"
    /\ score = <<>>
    /\ score' = <<computePatchVariance(patch)>>
    /\ UNCHANGED <<patchKind, patchArg, patch, selVars, toolVars, demoVars>>

NextScore == ScorePatch

SpecScore == InitScore /\ [][NextScore]_vars

---------------------------------------------------------------------------
(* Specification SpecSelect: selectBestPatch on one drawn input *)

InitSelect ==
    /\ selImage \in SelImages
    /\ selCenter \in SelCentres
    /\ selRadius \in 1..MaxSelRadius
    /\ selResult = NotCalled
    /\ ScoreIdle /\ ToolIdle /\ DemoIdle

CallSelect ==
    /\ selRadius > 0
    /\ selResult = NotCalled
    /\ selResult' = selectBestPatch(selImage, selCenter, selRadius)
    /\ UNCHANGED <<selImage, selCenter, selRadius, scoreVars, toolVars, demoVars>>

NextSelect == CallSelect

SpecSelect == InitSelect /\ [][NextSelect]_vars

---------------------------------------------------------------------------
(* Claims about computePatchVariance (under SpecScore) *)

Scored == patchKind # "none" /\ score # <<>>

UniformScore(side, c) == computePatchVariance(UniformPatch(side, c))

\* C5: for every patch whose pixels all have the same value computePatchVariance
\* returns exactly 0, and every Laplacian response, border pixels included, is 0.
Thm_C5_UniformScoresZero ==
    (Scored /\ patchKind = "uniform") =>
        /\ score[1] = 0
        /\ \A x \in 0..(patch.cols - 1), y \in 0..(patch.rows - 1) :
              LaplacianAt(patch, x, y) = 0

Wit_C5_UniformScored ==
    /\ Scored /\ patchKind = "uniform" /\ patchArg.side >= 5 /\ score[1] = 0

\* C4 as stated: every checkerboard patch, of any cell size >= 1, scores strictly
\* more than the uniform patch of the same size.
Orig_C4_CheckerAlwaysAboveUniform ==
    (Scored /\ patchKind = "checker") =>
        score[1] > UniformScore(patchArg.side, patchArg.lo)

\* C4 amended: a checkerboard whose cells are at least 2 pixels wide (and
\* narrower than the patch) scores strictly more than the uniform patch of the
\* same size; a one-pixel checkerboard scores exactly what the uniform patch
\* scores, because the aperture-3 kernel reads only the four diagonal
\* neighbours, which have the colour of the centre.
Thm_C4_CheckerAboveUniformFromCellTwo ==
    (Scored /\ patchKind = "checker") =>
        /\ patchArg.cell >= 2 => score[1] > UniformScore(patchArg.side, patchArg.lo)
        /\ patchArg.cell = 1 => score[1] = UniformScore(patchArg.side, patchArg.lo)

Wit_C4_CoarseCheckerScored ==
    /\ Scored /\ patchKind = "checker" /\ patchArg.cell >= 2
    /\ score[1] > UniformScore(patchArg.side, patchArg.hi)

---------------------------------------------------------------------------
(* Claims about selectBestPatch (under SpecSelect) *)

Selected == selRadius > 0 /\ selResult # NotCalled

\* The claims' own reading of "candidate i lies fully inside the image".
FitsImage(image, sc, radius) ==
    /\ sc[1] - radius >= 0
    /\ sc[2] - radius >= 0
    /\ sc[1] + radius + 1 <= image.cols
    /\ sc[2] + radius + 1 <= image.rows

SelCand(i) == SrcCenter(selCenter, kDirs[i], selRadius)
SelFitting == {i \in 1..Len(kDirs) : FitsImage(selImage, SelCand(i), selRadius)}
SelPatch(i) == PatchAround(selImage, SelCand(i), selRadius)
SelScores == [i \in SelFitting |-> computePatchVariance(SelPatch(i))]

\* The least score of a non-empty family of scores.
MinScore(scores) ==
    LET vals == {scores[i] : i \in DOMAIN scores}
    IN  CHOOSE v \in vals : \A w \in vals : v <= w

\* The positions k of `order` (a sequence of kDirs indices) whose candidate fits
\* and scores the minimum over the fitting candidates.
MinimalPositions(order, scores) ==
    LET m == MinScore(scores)
    IN  {k \in 1..Len(order) : order[k] \in DOMAIN scores /\ scores[order[k]] = m}

\* The kDirs index the enumeration `order` meets first among the minimal ones.
FirstMinimal(order, scores) ==
    LET ks == MinimalPositions(order, scores)
    IN  order[CHOOSE k \in ks : \A k2 \in ks : k <= k2]

\* Compass names: north is towards smaller y, east towards larger x.
CompassSign == [N  |-> <<0, -1>>, NE |-> <<1, -1>>, E  |-> <<1, 0>>,  SE |-> <<1, 1>>,
                S  |-> <<0, 1>>,  SW |-> <<-1, 1>>, W  |-> <<-1, 0>>, NW |-> <<-1, -1>>]

Sign(n) == IF n > 0 THEN 1 ELSE IF n < 0 THEN -1 ELSE 0

\* The kDirs index of a compass direction.
CompassIndex(name) ==
    CHOOSE i \in 1..Len(kDirs) :
        <<Sign(kDirs[i][1]), Sign(kDirs[i][2])>> = CompassSign[name]

IndicesOf(names) == [k \in 1..Len(names) |-> CompassIndex(names[k])]

SourceOrder == [k \in 1..Len(kDirs) |-> k]

\* C1: when all eight candidates are in bounds the result is a copy of the
\* candidate whose score is the minimum of the eight scores, the first such
\* candidate in the order of kDirs when several share the minimum.
Thm_C1_MinimumOfEight ==
    (Selected /\ SelFitting = 1..Len(kDirs)) =>
        LET sc == SelScores
        IN  /\ ~IsEmpty(selResult)
            /\ selResult = SelPatch(FirstMinimal(SourceOrder, sc))
            /\ computePatchVariance(selResult) = MinScore(sc)

\* all eight fit, exactly two tie for the minimum and the tie matters: the
\* later one has other pixels than the patch returned
Wit_C1_EightWithTie ==
    /\ Selected /\ SelFitting = 1..Len(kDirs)
    /\ LET sc == SelScores
       IN  \E i, j \in 1..Len(kDirs) :
              /\ i < j
              /\ MinimalPositions(SourceOrder, sc) = {i, j}
              /\ selResult = SelPatch(i)
              /\ selResult # SelPatch(j)

\* C2 as stated: exact ties are broken in the order N, NE, E, SE, S, SW, W, NW.
Orig_C2_TieOrderNorthFirst ==
    (Selected /\ SelFitting # {}) =>
        selResult = SelPatch(FirstMinimal(
            IndicesOf(<<"N", "NE", "E", "SE", "S", "SW", "W", "NW">>), SelScores))

\* C2 amended: exact ties are broken in the order E, SE, S, SW, W, NW, N, NE
\* (the order of kDirs: east first, then clockwise on the screen).
Thm_C2_TieOrderEastFirst ==
    (Selected /\ SelFitting # {}) =>
        LET order == IndicesOf(<<"E", "SE", "S", "SW", "W", "NW", "N", "NE">>)
            sc    == SelScores
        IN  Cardinality(MinimalPositions(order, sc)) >= 2
               => selResult = SelPatch(FirstMinimal(order, sc))

\* N and E both fit and tie for the minimum with different pixels: E is returned
Wit_C2_EastBeatsNorth ==
    /\ Selected
    /\ {CompassIndex("N"), CompassIndex("E")} \subseteq SelFitting
    /\ LET sc == SelScores
       IN  /\ sc[CompassIndex("E")] = MinScore(sc)
           /\ sc[CompassIndex("N")] = MinScore(sc)
    /\ SelPatch(CompassIndex("N")) # SelPatch(CompassIndex("E"))
    /\ selResult = SelPatch(CompassIndex("E"))

\* C3: only candidates whose patch lies fully inside the image are scored, the
\* minimum-score one among them is returned, and the result is empty if and
\* only if none of the eight fits.
Thm_C3_OnlyFittingCandidates ==
    Selected =>
        /\ IsEmpty(selResult) <=> SelFitting = {}
        /\ SelFitting # {} =>
              /\ selResult = SelPatch(FirstMinimal(SourceOrder, SelScores))
              /\ selResult.rows = 2 * selRadius + 1
              /\ selResult.cols = 2 * selRadius + 1

\* near an edge: some but not all candidates fit and a textured patch is the
\* best of those that do
Wit_C3_SomeFit ==
    /\ Selected
    /\ SelFitting # {} /\ SelFitting # 1..Len(kDirs)
    /\ ~IsEmpty(selResult)
    /\ computePatchVariance(selResult) > 0

---------------------------------------------------------------------------
(* The interactive tool: onMouse, runBlemishRemoval, main *)

kDefaultRad == 20

\* cv::EVENT_LBUTTONDOWN, and the key codes the loop tests.
EVENT_LBUTTONDOWN == 1
KeyEsc == 27
KeyLowerC == 99
KeyUpperC == 67

\* Mutant of MatClone: a header copy (cv::Mat b = a;) that shares a's buffer.
MatShallowCopy(h, m) == [heap |-> h, mat |-> m]

\* m.clone(): a new buffer holding a copy of m's pixels.
MatClone(h, m) == [heap |-> Append(h, h[m]), mat |-> Len(h) + 1]

\* Mutant of MatCopyTo: the copy made in the other direction.
MatCopyToReversed(h, src, dst) == [h EXCEPT ![src] = h[dst]]

\* src.copyTo(dst) with dst already of src's size and type: dst's buffer is
\* overwritten, no buffer is allocated.
MatCopyTo(h, src, dst) == [h EXCEPT ![dst] = h[src]]

\* Mutant of loadImageOrExit: the img.empty() test left out.
loadImageUnchecked(decoded) == [exits |-> FALSE, img |-> decoded]

\* loadImageOrExit, given what cv::imread decoded: exits on an empty image.
loadImageOrExit(decoded) == [exits |-> IsEmpty(decoded), img |-> decoded]

\* Mutant of saveImageOrExit: the result of cv::imwrite ignored.
saveImageUnchecked(written) == [exits |-> FALSE]

\* saveImageOrExit, given the result of cv::imwrite: exits when it is false.
saveImageOrExit(written) == [exits |-> ~written]

\* cv::Mat::zeros(size, CV_8UC1) with cv::circle(mask, c, radius, 255, FILLED).
CircleMask(rows, cols, c, radius) ==
    MakeMat(rows, cols,
            LAMBDA x, y : IF (x - c[1]) * (x - c[1]) + (y - c[2]) * (y - c[2])
                             <= radius * radius
                          THEN 255 ELSE 0)

SetMin(S) == CHOOSE v \in S : \A w \in S : v <= w
SetMax(S) == CHOOSE v \in S : \A w \in S : v >= w

\* cv::seamlessClone clears the one-pixel border of the mask and takes
\* roi_s = boundingRect(mask); roi_d has roi_s's size and is centred on p:
\* Rect(p.x - roi_s.width / 2, p.y - roi_s.height / 2, width, height).
CloneRoi(mask, p) ==
    LET xs == {x \in 1..(mask.cols - 2) : \E y \in 1..(mask.rows - 2) : At(mask, x, y) # 0}
        ys == {y \in 1..(mask.rows - 2) : \E x \in 1..(mask.cols - 2) : At(mask, x, y) # 0}
    IN  IF xs = {} THEN [x |-> 0, y |-> 0, width |-> 0, height |-> 0]
        ELSE LET w == SetMax(xs) - SetMin(xs) + 1
                 h == SetMax(ys) - SetMin(ys) + 1
             IN  [x |-> p[1] - (w \div 2), y |-> p[2] - (h \div 2), width |-> w, height |-> h]

\* The test of cv::Mat::operator()(const Rect&): the rectangle lies in m.
RectInside(r, m) ==
    /\ 0 <= r.x /\ 0 <= r.width /\ r.x + r.width <= m.cols
    /\ 0 <= r.y /\ 0 <= r.height /\ r.y + r.height <= m.rows

\* cv::seamlessClone(src, dst, mask, p, blend, NORMAL_CLONE) with blend = dst.
\*   - an empty roi_s: blend is dst;
\*   - roi_d not inside dst: dst(roi_d) throws cv::Exception, dst untouched;
\*   - otherwise the Poisson solution is written to blend(roi_d): the
\*     rectangle's outermost ring keeps dst's pixels, every pixel inside the
\*     ring gets a solver output (Blended); nothing outside roi_d is written.
seamlessClone(src, dst, mask, p) ==
    LET roi == CloneRoi(mask, p)
    IN  IF IsEmpty(src) THEN [thrown |-> TRUE, blend |-> dst]
        ELSE IF roi.width = 0 \/ roi.height = 0 THEN [thrown |-> FALSE, blend |-> dst]
        ELSE IF ~RectInside(roi, dst) THEN [thrown |-> TRUE, blend |-> dst]
        ELSE [thrown |-> FALSE,
              blend |-> [dst EXCEPT !.px =
                  [k \in DOMAIN dst.px |->
                      LET x == (k - 1) % dst.cols
                          y == (k - 1) \div dst.cols
                      IN  IF /\ roi.x < x /\ x < roi.x + roi.width - 1
                             /\ roi.y < y /\ y < roi.y + roi.height - 1
                          THEN Blended ELSE dst.px[k]]]]

\* No pixel of m is a solver output.
Known(m) == \A k \in DOMAIN m.px : m.px[k] # Blended

\* What selectBestPatch(image, center, radius) can return.  On an image of
\* palette pixels it is a function.  The score of a candidate holding solver
\* outputs is not determined, so any candidate in bounds may be the minimum.
PossibleDonors(image, center, radius) ==
    LET fitting == {i \in 1..Len(kDirs) :
                       PatchInBounds(image, SrcCenter(center, kDirs[i], radius), radius)}
        patches == {PatchAround(image, SrcCenter(center, kDirs[i], radius), radius) :
                       i \in fitting}
    IN  IF \A q \in patches : Known(q)
        THEN {selectBestPatch(image, center, radius)}
        ELSE patches

---------------------------------------------------------------------------
(* Specification SpecBlemish: one run of the program *)

MaxClicks == 2      \* corrections recorded between two resets
MaxSkipped == 1     \* no-donor clicks counted

ToolSide == 3 * kDefaultRad + 10

\* Decodable inputs: a gray image with a 5x5 black blemish, and a wider
\* textured one.
ToolImages ==
    { MakeMat(ToolSide, ToolSide,
              LAMBDA x, y : IF /\ kDefaultRad - 2 <= x /\ x <= kDefaultRad + 2
                               /\ kDefaultRad - 2 <= y /\ y <= kDefaultRad + 2
                            THEN 1 ELSE 2),
      MakeMat(ToolSide, ToolSide + kDefaultRad,
              LAMBDA x, y : 1 + ((x + 2 * y + x * y) % 3)) }

\* Points the mouse reports: one with no donor, two that can be corrected, one
\* near the corner.
ClickPoints == { <<ToolSide \div 2, ToolSide \div 2>>,
                 <<kDefaultRad, kDefaultRad>>,
                 <<ToolSide - kDefaultRad - 1, kDefaultRad>>,
                 <<5, 5>> }

\* EVENT_MOUSEMOVE, EVENT_LBUTTONDOWN, EVENT_LBUTTONUP
MouseEvents == {0, EVENT_LBUTTONDOWN, 4}

\* Values cv::waitKey(20) returns: -1 (no key), Esc, 'c', 'C'.
WaitKeyCodes == {-1, KeyEsc, KeyLowerC, KeyUpperC}

InitBlemish ==
    /\ pc = "main"
    /\ fileImage \in ToolImages \cup {EmptyMat}
    /\ heap = <<>> /\ input = 0 /\ g_sourceImage = 0 /\ original = 0
    /\ windowOpen = FALSE /\ outputFile = EmptyMat
    /\ exitStatus = "none" /\ errLog = 0 /\ key = NoKey
    /\ applied = <<>> /\ skipped = 0 /\ undone = FALSE /\ escImage = EmptyMat
    /\ ScoreIdle /\ SelIdle /\ DemoIdle

\* main: input = loadImageOrExit(inputImagePath, IMREAD_COLOR)
LoadImage ==
    /\ pc = "main"
    /\ LET r == loadImageOrExit(fileImage)
       IN  IF r.exits
           THEN /\ errLog' = errLog + 1
                /\ exitStatus' = "EXIT_FAILURE"
                /\ pc' = "exited"
                /\ UNCHANGED <<heap, input>>
           ELSE /\ heap' = <<r.img>>
                /\ input' = 1
                /\ pc' = "run"
                /\ UNCHANGED <<errLog, exitStatus>>
    /\ UNCHANGED <<fileImage, g_sourceImage, original, windowOpen, outputFile, key,
                   applied, skipped, undone, escImage, scoreVars, selVars, demoVars>>

\* runBlemishRemoval up to the loop: g_sourceImage = image.clone(), the window
\* with its mouse callback, original = image.clone().
RunSetup ==
    /\ pc = "run"
    /\ LET a == MatClone(heap, input)
           b == MatClone(a.heap, input)
       IN  /\ heap' = b.heap
           /\ g_sourceImage' = a.mat
           /\ original' = b.mat
    /\ windowOpen' = TRUE
    /\ pc' = "loop"
    /\ UNCHANGED <<fileImage, input, outputFile, exitStatus, errLog, key, applied,
                   skipped, undone, escImage, scoreVars, selVars, demoVars>>

\* onMouse(event, x, y, flags, userdata), called from inside cv::waitKey.
onMouse(event, x, y) ==
    /\ pc = "loop" /\ windowOpen
    /\ IF event # EVENT_LBUTTONDOWN
       THEN UNCHANGED <<pc, heap, windowOpen, exitStatus, applied, skipped>>
       ELSE \E donor \in PossibleDonors(heap[g_sourceImage], <<x, y>>, kDefaultRad) :
              IF IsEmpty(donor)
              THEN /\ skipped < MaxSkipped
                   /\ skipped' = skipped + 1
                   /\ UNCHANGED <<pc, heap, windowOpen, exitStatus, applied>>
              ELSE LET mask == CircleMask(donor.rows, donor.cols,
                                          <<kDefaultRad, kDefaultRad>>, kDefaultRad)
                       r    == seamlessClone(donor, heap[g_sourceImage], mask, <<x, y>>)
                   IN  IF r.thrown
                       THEN \* no handler: std::terminate
                            /\ pc' = "aborted"
                            /\ exitStatus' = "terminate"
                            /\ windowOpen' = FALSE
                            /\ UNCHANGED <<heap, applied, skipped>>
                       ELSE /\ Len(applied) < MaxClicks
                            /\ heap' = [heap EXCEPT ![g_sourceImage] = r.blend]
                            /\ applied' = Append(applied, <<x, y>>)
                            /\ UNCHANGED <<pc, windowOpen, exitStatus, skipped>>
    /\ UNCHANGED <<fileImage, input, g_sourceImage, original, outputFile, errLog, key,
                   undone, escImage, scoreVars, selVars, demoVars>>

\* One return of cv::waitKey(20) and the rest of the loop body: Esc leaves the
\* loop (destroyAllWindows), 'c' / 'C' copy original over g_sourceImage.
KeyPoll(code) ==
    /\ pc = "loop"
    /\ key' = code % 256
    /\ IF key' = KeyEsc
       THEN /\ pc' = "save"
            /\ windowOpen' = FALSE
            /\ escImage' = heap[g_sourceImage]
            /\ UNCHANGED <<heap, applied, undone>>
       ELSE IF key' = KeyLowerC \/ key' = KeyUpperC
       THEN /\ heap' = MatCopyTo(heap, original, g_sourceImage)
            /\ applied' = <<>>
            /\ undone' = (undone \/ applied # <<>>)
            /\ UNCHANGED <<pc, windowOpen, escImage>>
       ELSE UNCHANGED <<pc, windowOpen, escImage, heap, applied, undone>>
    /\ UNCHANGED <<fileImage, input, g_sourceImage, original, outputFile, exitStatus,
                   errLog, skipped, scoreVars, selVars, demoVars>>

\* main: saveImageOrExit(outputImagePath, g_sourceImage); return EXIT_SUCCESS
SaveImage ==
    /\ pc = "save"
    /\ \E written \in BOOLEAN :
          /\ outputFile' = IF written THEN heap[g_sourceImage] ELSE outputFile
          /\ IF saveImageOrExit(written).exits
             THEN /\ errLog' = errLog + 1
                  /\ exitStatus' = "EXIT_FAILURE"
             ELSE /\ exitStatus' = "EXIT_SUCCESS"
                  /\ UNCHANGED errLog
    /\ pc' = "exited"
    /\ UNCHANGED <<fileImage, heap, input, g_sourceImage, original, windowOpen, key,
                   applied, skipped, undone, escImage, scoreVars, selVars, demoVars>>

NextBlemish ==
    \/ LoadImage
    \/ RunSetup
    \/ \E e \in MouseEvents, p \in ClickPoints : onMouse(e, p[1], p[2])
    \/ \E code \in WaitKeyCodes : KeyPoll(code)
    \/ SaveImage

SpecBlemish == InitBlemish /\ [][NextBlemish]_vars

---------------------------------------------------------------------------
(* Claims about the running tool (under SpecBlemish) *)

\* The claims' own reading of "the click at p has a donor".
HasDonor(image, p) ==
    \E i \in 1..Len(kDirs) :
        FitsImage(image, SrcCenter(p, kDirs[i], kDefaultRad), kDefaultRad)

\* The image after the correction of a click at p.
Corrected(image, p) ==
    LET donor == CHOOSE d \in PossibleDonors(image, p, kDefaultRad) : TRUE
        mask  == CircleMask(donor.rows, donor.cols, <<kDefaultRad, kDefaultRad>>, kDefaultRad)
    IN  seamlessClone(donor, image, mask, p).blend

\* The corrections of the clicks pts[1], ..., pts[n] applied in that order.
RECURSIVE CorrectedAll(_, _, _)
CorrectedAll(image, pts, n) ==
    IF n = 0 THEN image
    ELSE Corrected(CorrectedAll(image, pts, n - 1), pts[n])

\* C6 as stated: a left-click without donor changes nothing and leaves the tool
\* running, and once such a click has happened every left-click at a position
\* that has a donor is still corrected.
Orig_C6_UsableAfterNoDonor ==
    [][\A p \in ClickPoints :
          onMouse(EVENT_LBUTTONDOWN, p[1], p[2]) =>
              IF ~HasDonor(heap[g_sourceImage], p)
              THEN pc' = "loop" /\ heap' = heap
              ELSE skipped > 0 =>
                      /\ pc' = "loop"
                      /\ heap'[g_sourceImage] = Corrected(heap[g_sourceImage], p)]_vars

\* C7: pressing 'C' or 'c' makes g_sourceImage equal to the image as loaded,
\* whatever was clicked before, and the stored original always equals the
\* image as loaded.
Thm_C7_ResetRestoresLoaded ==
    [][/\ original' # 0 => heap'[original'] = fileImage'
       /\ \A code \in {KeyLowerC, KeyUpperC} :
             KeyPoll(code) => heap'[g_sourceImage'] = fileImage']_vars

\* a reset has just discarded at least one correction
Wit_C7_ResetAfterCorrections ==
    /\ pc = "loop" /\ undone /\ applied = <<>>
    /\ key \in {KeyLowerC, KeyUpperC}
    /\ heap[g_sourceImage] = fileImage

\* C8: the loop is left exactly when a key poll returned Esc; no output exists
\* before that; the image written is g_sourceImage as it was when Esc was
\* polled, which is the loaded image with the corrections of the clicks since
\* the last reset applied in click order.
Thm_C8_EscThenWriteCurrent ==
    /\ pc = "loop" => key # KeyEsc
    /\ pc = "save" => key = KeyEsc /\ ~windowOpen /\ escImage = heap[g_sourceImage]
    /\ pc \in {"main", "run", "loop", "save", "aborted"} => IsEmpty(outputFile)
    /\ ~IsEmpty(outputFile) =>
          /\ key = KeyEsc
          /\ outputFile = escImage
          /\ outputFile = CorrectedAll(fileImage, applied, Len(applied))

\* written after corrections, a reset, and a correction after the reset
Wit_C8_WrittenAfterResetAndClick ==
    /\ pc = "exited" /\ exitStatus = "EXIT_SUCCESS"
    /\ undone /\ Len(applied) = 1
    /\ outputFile # fileImage
    /\ outputFile = Corrected(fileImage, applied[1])

\* C10: an unreadable input ends the run with one error line and a failure
\* status before a window, a click or an output file exists; a failed write
\* ends it with an error line and a failure status.
Thm_C10_IoFailuresAreFatal ==
    /\ IsEmpty(fileImage) =>
          /\ pc \in {"main", "exited"}
          /\ ~windowOpen /\ heap = <<>> /\ g_sourceImage = 0
          /\ applied = <<>> /\ skipped = 0 /\ key = NoKey
          /\ IsEmpty(outputFile)
          /\ pc = "exited" => exitStatus = "EXIT_FAILURE" /\ errLog = 1
    /\ (pc = "exited" /\ IsEmpty(outputFile)) => exitStatus = "EXIT_FAILURE" /\ errLog = 1
    /\ exitStatus = "EXIT_SUCCESS" => pc = "exited" /\ ~IsEmpty(outputFile) /\ errLog = 0

Wit_C10_UnreadableInput ==
    /\ IsEmpty(fileImage) /\ pc = "exited"
    /\ exitStatus = "EXIT_FAILURE" /\ errLog = 1

---------------------------------------------------------------------------
(* roi_selector.cpp *)

EVENT_MOUSEMOVE == 0
EVENT_RBUTTONDOWN == 2
EVENT_LBUTTONUP == 4
KeyEnter == 13

Min2(a, b) == IF a <= b THEN a ELSE b

\* cv::Rect(x, y, width, height)
Rect(x, y, width, height) == [x |-> x, y |-> y, width |-> width, height |-> height]

\* cv::Rect operator&=: the intersection, Rect() when it has no area.
RectAnd(a, b) ==
    LET x1 == Max2(a.x, b.x)
        y1 == Max2(a.y, b.y)
        w  == Min2(a.x + a.width, b.x + b.width) - x1
        h  == Min2(a.y + a.height, b.y + b.height) - y1
    IN  IF w <= 0 \/ h <= 0 THEN Rect(0, 0, 0, 0) ELSE Rect(x1, y1, w, h)

\* Mutant of NormalizeCorners: the corners kept as pressed and released.
NormalizeCornersSkipped(s, e) == [start_pt |-> s, end_pt |-> e]

\* onMouse, "Normalize coordinates": top-left and bottom-right of the drag.
NormalizeCorners(s, e) ==
    [start_pt |-> <<Min2(s[1], e[1]), Min2(s[2], e[2])>>,
     end_pt   |-> <<Max2(s[1], e[1]), Max2(s[2], e[2])>>]

\* roi_selector's loadImageOrExit, given what cv::imread decoded.
roiLoadImageOrExit(decoded) == [exits |-> IsEmpty(decoded), img |-> decoded]

\* roi_selector's saveImageOrExit, given the result of cv::imwrite.
roiSaveImageOrExit(written) == [exits |-> ~written]

\* state.image.clone() shown without overlay.
CleanDisplay == [text |-> FALSE, rect |-> <<>>]

MaxRoiSide == 2       \* the input image is MaxRoiSide x MaxRoiSide
MaxRoiMargin == 1     \* how far left of / above the image the mouse is reported

\* Decodable inputs: pixels painted so that different crops differ.
RoiImages ==
    { MakeMat(MaxRoiSide, MaxRoiSide,
              LAMBDA x, y : 1 + ((x + MaxRoiSide * y) % Len(Palette))) }

\* Mouse positions: outside on the upper/left side, inside, and on the
\* lower/right edge just outside the image.
RoiPoints == { <<-MaxRoiMargin, -MaxRoiMargin>>,
               <<MaxRoiSide - 1, MaxRoiSide - 1>>,
               <<MaxRoiSide, MaxRoiSide>>,
               <<-MaxRoiMargin, MaxRoiSide>>,
               <<MaxRoiSide - 1, -MaxRoiMargin>> }

RoiMouseEvents == {EVENT_MOUSEMOVE, EVENT_LBUTTONDOWN, EVENT_RBUTTONDOWN, EVENT_LBUTTONUP}

\* Values cv::waitKey(20) returns: -1 (no key), Esc, Enter, 'c'.
RoiWaitKeyCodes == {-1, KeyEsc, KeyEnter, KeyLowerC}

InitRoi ==
    /\ roiPc = "main"
    /\ roiInput \in RoiImages \cup {EmptyMat}
    /\ state = NoMouseState
    /\ roiKey = 0 /\ roiOutput = EmptyMat /\ roiLog = "none" /\ roiExit = "none"
    /\ NotRoiIdle

\* main up to the loop: load, clone for display, window, callback, overlay text.
RoiMain ==
    /\ roiPc = "main"
    /\ LET r == roiLoadImageOrExit(roiInput)
       IN  IF r.exits
           THEN /\ roiLog' = "error"
                /\ roiExit' = "EXIT_FAILURE"
                /\ roiPc' = "exited"
                /\ UNCHANGED state
           ELSE /\ state' = [state EXCEPT !.image = r.img,
                                          !.display = [text |-> TRUE, rect |-> <<>>]]
                /\ roiPc' = "loop"
                /\ UNCHANGED <<roiLog, roiExit>>
    /\ UNCHANGED <<roiInput, roiKey, roiOutput, notRoiVars>>

\* onMouse(event, x, y, flags, userdata), called from inside cv::waitKey.
RoiOnMouse(event, x, y) ==
    /\ roiPc = "loop"
    /\ IF event = EVENT_LBUTTONDOWN
       THEN /\ state' = [state EXCEPT !.drawing = TRUE, !.start_pt = <<x, y>>,
                                      !.display = CleanDisplay]
            /\ UNCHANGED <<roiPc, roiOutput, roiLog, roiExit>>
       ELSE IF event = EVENT_MOUSEMOVE
       THEN /\ state' = IF state.drawing
                        THEN [state EXCEPT !.display =
                                 [text |-> FALSE, rect |-> <<state.start_pt, <<x, y>>>>]]
                        ELSE state
            /\ UNCHANGED <<roiPc, roiOutput, roiLog, roiExit>>
       ELSE IF event = EVENT_LBUTTONUP
       THEN LET n   == NormalizeCorners(state.start_pt, <<x, y>>)
                roi == RectAnd(Rect(n.start_pt[1], n.start_pt[2],
                                    n.end_pt[1] - n.start_pt[1],
                                    n.end_pt[2] - n.start_pt[2]),
                               Rect(0, 0, state.image.cols, state.image.rows))
            IN  /\ state' = [state EXCEPT !.drawing = FALSE,
                                          !.start_pt = n.start_pt,
                                          !.end_pt = n.end_pt,
                                          !.display = [text |-> FALSE,
                                                       rect |-> <<n.start_pt, n.end_pt>>]]
                /\ IF roi.width > 0 /\ roi.height > 0
                   THEN \E written \in BOOLEAN :
                          /\ roiOutput' =
                                IF written
                                THEN SubMat(state.image, roi.x, roi.y,
                                            roi.x + roi.width, roi.y + roi.height)
                                ELSE roiOutput
                          /\ IF roiSaveImageOrExit(written).exits
                             THEN /\ roiLog' = "error"
                                  /\ roiExit' = "EXIT_FAILURE"
                                  /\ roiPc' = "exited"
                             ELSE /\ roiLog' = "saved"
                                  /\ UNCHANGED <<roiPc, roiExit>>
                   ELSE /\ roiLog' = "info"
                        /\ UNCHANGED <<roiPc, roiOutput, roiExit>>
       ELSE UNCHANGED <<state, roiPc, roiOutput, roiLog, roiExit>>
    /\ UNCHANGED <<roiInput, roiKey, notRoiVars>>

\* One turn of the loop: imshow, key = waitKey(20) & 0xFF, the loop test;
\* destroyWindow and return 0 when the test fails.
RoiKeyPoll(code) ==
    /\ roiPc = "loop"
    /\ roiKey' = code % 256
    /\ IF roiKey' # KeyEsc /\ roiKey' # KeyEnter
       THEN UNCHANGED <<roiPc, roiExit>>
       ELSE /\ roiPc' = "exited"
            /\ roiExit' = "0"
    /\ UNCHANGED <<roiInput, state, roiOutput, roiLog, notRoiVars>>

NextRoi ==
    \/ RoiMain
    \/ \E e \in RoiMouseEvents, p \in RoiPoints : RoiOnMouse(e, p[1], p[2])
    \/ \E code \in RoiWaitKeyCodes : RoiKeyPoll(code)

SpecRoi == InitRoi /\ [][NextRoi]_vars

\* C11 as stated: a session left with ESC has written no crop file, and a crop
\* file exists only once the session has been ended with ENTER.
Orig_C11_EscSavesNothing ==
    /\ (roiPc = "exited" /\ roiKey = KeyEsc) => IsEmpty(roiOutput)
    /\ ~IsEmpty(roiOutput) => (roiPc = "exited" /\ roiKey = KeyEnter)

\* C12: on every release the rectangle cropped is the normalised press/release
\* rectangle intersected with the image; the crop is saved only when that
\* intersection has width > 0 and height > 0, otherwise nothing is written and
\* the program keeps running.
Thm_C12_CropIsClampedDrag ==
    [][\A p \in RoiPoints :
          RoiOnMouse(EVENT_LBUTTONUP, p[1], p[2]) =>
              LET x1 == Max2(0, Min2(state.start_pt[1], p[1]))
                  x2 == Min2(state.image.cols, Max2(state.start_pt[1], p[1]))
                  y1 == Max2(0, Min2(state.start_pt[2], p[2]))
                  y2 == Min2(state.image.rows, Max2(state.start_pt[2], p[2]))
              IN  IF x2 > x1 /\ y2 > y1
                  THEN \/ /\ roiOutput' = SubMat(state.image, x1, y1, x2, y2)
                          /\ roiPc' = "loop" /\ roiLog' = "saved"
                       \/ /\ roiOutput' = roiOutput
                          /\ roiPc' = "exited" /\ roiExit' = "EXIT_FAILURE"
                  ELSE /\ roiOutput' = roiOutput
                       /\ roiPc' = "loop" /\ roiExit' = "none"]_vars

\* a drag from the lower/right edge up to a point left of and above the image
\* has saved the clamped crop
Wit_C12_ClampedCropSaved ==
    /\ roiPc = "loop" /\ roiLog = "saved"
    /\ state.start_pt = <<-MaxRoiMargin, -MaxRoiMargin>>
    /\ state.end_pt = <<MaxRoiSide, MaxRoiSide>>
    /\ roiOutput = state.image

---------------------------------------------------------------------------
(* sunglasses++.cpp: the main loop, detection and tracking *)

K_FRAMES_DETECTION == 20
NumSources == 6         \* input_sources.size()
FrameCols == 1280       \* CAP_PROP_FRAME_WIDTH
FrameRows == 720        \* CAP_PROP_FRAME_HEIGHT
MinFaceSide == 100      \* minSize handed to detectMultiScale

\* A webcam frame; its pixels play no part in what is modelled.
CamFrame == [rows |-> FrameRows, cols |-> FrameCols, px |-> <<>>]

\* cv::Rect2d values are kept in half pixels.
HalfUnit == 2

\* cv::Rect -> cv::Rect2d (MultiTracker::add)
ToRect2d(r) == Rect(r.x * HalfUnit, r.y * HalfUnit, r.width * HalfUnit, r.height * HalfUnit)

\* static_cast<int>(double): truncation toward zero.
TruncRect(b) ==
    Rect(TruncDiv(b.x, HalfUnit), TruncDiv(b.y, HalfUnit),
         TruncDiv(b.width, HalfUnit), TruncDiv(b.height, HalfUnit))

\* cvRound of v half pixels: to nearest, halves to even.
RoundHalf(v) ==
    LET f == v \div HalfUnit     \* floor
    IN  IF v % HalfUnit = 0 THEN f
        ELSE IF f % 2 = 0 THEN f ELSE f + 1

\* cv::Rect(const cv::Rect2d&): every field through saturate_cast<int>.
RoundRect(b) == Rect(RoundHalf(b.x), RoundHalf(b.y), RoundHalf(b.width), RoundHalf(b.height))

\* rect2dToRect(multiTracker->getObjects())
rect2dToRect(trackers) == [i \in 1..Len(trackers) |-> RoundRect(trackers[i].box)]

RectArea(r) == r.width * r.height

\* Mutant of decideWhetherToRedetect: the interval test made strict.
decideWhetherToRedetectLate(count, K, inited, trackers, frame) ==
    \/ ~inited
    \/ count > K
    \/ \E i \in 1..Len(trackers) :
          RectArea(RectAnd(TruncRect(trackers[i].box), Rect(0, 0, frame.cols, frame.rows))) = 0

decideWhetherToRedetect(count, K, inited, trackers, frame) ==
    \/ ~inited
    \/ count >= K
    \/ \E i \in 1..Len(trackers) :
          RectArea(RectAnd(TruncRect(trackers[i].box), Rect(0, 0, frame.cols, frame.rows))) = 0

\* initializeTrackers: a new MultiTracker with one tracker per detection.
initializeTrackers(faces) ==
    [i \in 1..Len(faces) |-> [box |-> ToRect2d(faces[i]), init |-> faces[i], fresh |-> TRUE]]

\* The trackers that were there when a pass began are no longer new.
Stale(trackers) == [i \in 1..Len(trackers) |-> [trackers[i] EXCEPT !.fresh = FALSE]]

\* Boxes TrackerMedianFlow may report for a face first seen at r: where it was,
\* wholly left of the frame, and half a pixel short of that.
TrackerMoves(r) ==
    LET b == ToRect2d(r)
    IN  {b, [b EXCEPT !.x = -b.width], [b EXCEPT !.x = 1 - b.width]}

\* updateTrackers: every tracker reports a box for the new frame.
Updates(trackers) ==
    LET n == Len(trackers)
        choices == UNION {TrackerMoves(trackers[i].init) : i \in 1..n}
    IN  { [i \in 1..n |-> [trackers[i] EXCEPT !.box = f[i]]] :
            f \in {g \in [1..n -> choices] :
                      \A i \in 1..n : g[i] \in TrackerMoves(trackers[i].init)} }

FaceA == Rect(MinFaceSide, MinFaceSide, MinFaceSide, MinFaceSide)
FaceB == Rect(FrameCols - 2 * MinFaceSide, MinFaceSide, MinFaceSide + 1, MinFaceSide + 1)

\* What detectFaces may return.
Detections == { <<>>, <<FaceA>>, <<FaceB, FaceA>> }

\* Positions the "Source" trackbar is moved to.
SourcePositions == {0, 1, NumSources - 1}

SunWaitKeyCodes == {-1, KeyEsc, KeyLowerC}

AllLoaded == [i \in 0..(NumSources - 1) |-> i # 0]

InitSun ==
    /\ sunPc = "main"
    /\ staticImages \in {AllLoaded, [AllLoaded EXCEPT ![1] = FALSE]}
    /\ capOpened = FALSE /\ g_srcIdx = 0
    /\ multiTracker = <<>> /\ trackersInited = FALSE /\ frameCount = 0
    /\ faceBoxes = <<>> /\ sunKey = NoKey /\ sunExit = "none" /\ shown = <<>>
    /\ redetected = FALSE /\ detected = <<>> /\ countSeen = 0
    /\ NotSunIdle

\* main, steps 1-9: windows, trackbars, cascade, preloads, webcam, tracker.
SunStart ==
    /\ sunPc = "main"
    /\ \E cascadeLoaded \in BOOLEAN, camOpens \in BOOLEAN :
          IF ~cascadeLoaded
          THEN /\ sunPc' = "exited"
               /\ sunExit' = "-1"
               /\ UNCHANGED capOpened
          ELSE /\ capOpened' = camOpens
               /\ sunPc' = "loop"
               /\ UNCHANGED sunExit
    /\ UNCHANGED <<staticImages, g_srcIdx, multiTracker, trackersInited, frameCount,
                   faceBoxes, sunKey, shown, redetected, detected, countSeen, notSunVars>>

\* One pass of the loop body up to cv::imshow (10a - 10c).  The overlays drawn
\* by applyGlasses / applyMustache change the frame's pixels only.
SunPass ==
    /\ sunPc = "loop"
    /\ IF g_srcIdx = 0 /\ capOpened
       THEN \E frame \in {CamFrame, EmptyMat} :
              IF IsEmpty(frame)
              THEN /\ sunPc' = "exited"
                   /\ sunExit' = "0"
                   /\ UNCHANGED <<multiTracker, trackersInited, frameCount, faceBoxes,
                                  shown, redetected, detected, countSeen>>
              ELSE LET n    == frameCount + 1
                       need == decideWhetherToRedetect(n, K_FRAMES_DETECTION,
                                                       trackersInited, multiTracker, frame)
                   IN  \E faces \in (IF need THEN Detections ELSE {<<>>}) :
                         LET created == need /\ faces # <<>>
                             mt1     == IF created THEN initializeTrackers(faces)
                                        ELSE Stale(multiTracker)
                             inited1 == trackersInited \/ created
                         IN  \E mt2 \in (IF inited1 THEN Updates(mt1) ELSE {mt1}) :
                               /\ multiTracker' = mt2
                               /\ trackersInited' = inited1
                               /\ frameCount' = IF need THEN 0 ELSE n
                               /\ faceBoxes' = IF inited1 THEN rect2dToRect(mt2)
                                               ELSE IF need THEN faces ELSE faceBoxes
                               /\ redetected' = need
                               /\ detected' = IF need THEN faces ELSE <<>>
                               /\ countSeen' = n
                               /\ shown' = <<g_srcIdx, faceBoxes'>>
                               /\ sunPc' = "wait"
                               /\ UNCHANGED sunExit
       ELSE IF ~staticImages[g_srcIdx]
            THEN /\ sunPc' = "exited"
                 /\ sunExit' = "0"
                 /\ UNCHANGED <<multiTracker, trackersInited, frameCount, faceBoxes,
                                shown, redetected, detected, countSeen>>
            ELSE \E faces \in Detections :
                   /\ faceBoxes' = faces
                   /\ shown' = <<g_srcIdx, faces>>
                   /\ redetected' = FALSE
                   /\ detected' = <<>>
                   /\ sunPc' = "wait"
                   /\ UNCHANGED <<multiTracker, trackersInited, frameCount, countSeen,
                                  sunExit>>
    /\ UNCHANGED <<staticImages, capOpened, g_srcIdx, sunKey, notSunVars>>

\* onTrackbar(value, &g_srcIdx), delivered while cv::waitKey runs.
SunTrackbar(value) ==
    /\ sunPc = "wait"
    /\ g_srcIdx' = value
    /\ UNCHANGED <<sunPc, staticImages, capOpened, multiTracker, trackersInited,
                   frameCount, faceBoxes, sunKey, sunExit, shown, redetected, detected,
                   countSeen, notSunVars>>

\* key = cv::waitKey(30) & 0xFF; if (key == 27) break; ... return 0
SunKeyPoll(code) ==
    /\ sunPc = "wait"
    /\ sunKey' = code % 256
    /\ IF sunKey' = KeyEsc
       THEN sunPc' = "exited" /\ sunExit' = "0"
       ELSE sunPc' = "loop" /\ UNCHANGED sunExit
    /\ UNCHANGED <<staticImages, capOpened, g_srcIdx, multiTracker, trackersInited,
                   frameCount, faceBoxes, shown, redetected, detected, countSeen,
                   notSunVars>>

NextSun ==
    \/ SunStart
    \/ SunPass
    \/ \E v \in SourcePositions : SunTrackbar(v)
    \/ \E code \in SunWaitKeyCodes : SunKeyPoll(code)

SpecSun == InitSun /\ [][NextSun]_vars

\* The claims' reading of "the tracked box has empty intersection with the
\* frame", on the tracker's own (half-pixel) coordinates.
BoxOutside(b, frame) ==
    \/ b.width <= 0 \/ b.height <= 0
    \/ b.x + b.width <= 0 \/ b.y + b.height <= 0
    \/ b.x >= frame.cols * HalfUnit \/ b.y >= frame.rows * HalfUnit

\* The step is a pass of the loop that read a webcam frame.
WebcamPass == sunPc = "loop" /\ sunPc' = "wait" /\ g_srcIdx = 0 /\ capOpened

Orig_C14_TrackersAreTheFreshFaces ==
    (sunPc = "wait" /\ redetected) =>
        /\ Len(multiTracker) = Len(detected)
        /\ \A i \in 1..Len(multiTracker) :
              multiTracker[i].fresh /\ multiTracker[i].init = detected[i]

\* C16 as stated: with the webcam unavailable (cascade and static images
\* loaded) the program leaves its loop only when ESC is read.
Orig_C16_NoWebcamRunsUntilEsc ==
    (sunPc = "exited" /\ sunExit = "0" /\ ~capOpened /\ staticImages = AllLoaded)
        => sunKey = KeyEsc

---------------------------------------------------------------------------
(* sunglasses++.cpp: the alpha channel built by applyGlasses *)

\* BGR triples of the base sunglasses image.
GlassesPalette == << <<255, 255, 255>>,   \* 1 white: in neither mask
                     <<0, 0, 0>>,         \* 2 black: whole only
                     <<0, 0, 200>>,       \* 3 whole and frame
                     <<10, 10, 54>>,      \* 4 red just under the frame threshold
                     <<255, 0, 100>> >>   \* 5 frame only
                     
\* cv::inRange on one pixel: 255 when every channel lies within the bounds.
inRange(bgr, lower, upper) ==
    IF \A c \in 1..3 : lower[c] <= bgr[c] /\ bgr[c] <= upper[c] THEN 255 ELSE 0

\* cv::subtract on CV_8U: saturated at 0.
SatSubtract(a, b) == Max2(0, a - b)

\* cv::resize(src, dst, {w, h}, 0, 0, INTER_NEAREST): dst(x, y) = src(floor(x * cols / w),
\* floor(y * rows / h)).
ResizeNearest(m, w, h) ==
    [rows |-> h, cols |-> w,
     px |-> [k \in 1..(w * h) |->
                At(m, Min2((((k - 1) % w) * m.cols) \div w, m.cols - 1),
                      Min2((((k - 1) \div w) * m.rows) \div h, m.rows - 1))]]

\* static_cast<uchar>(255.0 * glassesAlpha / 100.0)
AlphaByte(glassesAlpha) == (255 * glassesAlpha) \div 100

\* applyGlasses for one face of width fw, up to the alpha channel.
applyGlasses(base, glassesIdx, glassesAlpha, fw) ==
    IF glassesIdx <= 0 THEN [drawn |-> FALSE]
    ELSE
    LET maskFrameBase == [base EXCEPT !.px =
            [k \in DOMAIN base.px |->
                inRange(GlassesPalette[base.px[k]], <<0, 0, 55>>, <<255, 255, 254>>)]]
        maskWholeBase == [base EXCEPT !.px =
            [k \in DOMAIN base.px |->
                inRange(GlassesPalette[base.px[k]], <<0, 0, 0>>, <<254, 254, 254>>)]]
        outW == fw
        outH == (fw * base.rows) \div base.cols
        mFrameRes == ResizeNearest(maskFrameBase, outW, outH)
        mWholeRes == ResizeNearest(maskWholeBase, outW, outH)
        mLensRes  == [mWholeRes EXCEPT !.px =
            [k \in DOMAIN mWholeRes.px |-> SatSubtract(mWholeRes.px[k], mFrameRes.px[k])]]
        aVal   == AlphaByte(glassesAlpha)
        alpha0 == [k \in 1..(outW * outH) |-> 0]
        alpha1 == [k \in 1..(outW * outH) |-> IF mLensRes.px[k] # 0 THEN aVal ELSE alpha0[k]]
        alpha2 == [k \in 1..(outW * outH) |-> IF mFrameRes.px[k] # 0 THEN 255 ELSE alpha1[k]]
    IN  [drawn |-> TRUE, mFrameRes |-> mFrameRes, mLensRes |-> mLensRes,
         alphaCh |-> [rows |-> outH, cols |-> outW, px |-> alpha2]]

MaxFaceWidth == 5     \* faces are 2..MaxFaceWidth pixels wide

\* A base image of 4 x 2 pixels with every kind of pixel in it.
GlassesBases ==
    { [rows |-> 2, cols |-> 4, px |-> <<1, 3, 2, 5,
                                        4, 3, 2, 1>>] }

InitAlpha ==
    /\ glassesIn \in [base : GlassesBases, glassesIdx : {0, 1},
                      glassesAlpha : 0..100, fw : 2..MaxFaceWidth]
    /\ glassesOut = <<>>
    /\ NotAlphaIdle

CallApplyGlasses ==
    /\ glassesIn # <<>>
    /\ glassesOut = <<>>
    /\ glassesOut' = <<applyGlasses(glassesIn.base, glassesIn.glassesIdx,
                                    glassesIn.glassesAlpha, glassesIn.fw)>>
    /\ UNCHANGED <<glassesIn, notAlphaVars>>

NextAlpha == CallApplyGlasses

SpecAlpha == InitAlpha /\ [][NextAlpha]_vars

\* C15 as stated: in the alpha channel a pixel of the frame mask has the
\* user-controlled value floor(255 * GlassesAlpha / 100), a pixel of the lens
\* mask has 255, every other pixel has 0.
Orig_C15_FrameUserAlphaLensOpaque ==
    (glassesOut # <<>> /\ glassesOut[1].drawn) =>
        LET out == glassesOut[1]
        IN  \A k \in DOMAIN out.alphaCh.px :
               out.alphaCh.px[k] =
                   IF out.mFrameRes.px[k] = 255
                   THEN (255 * glassesIn.glassesAlpha) \div 100
                   ELSE IF out.mLensRes.px[k] = 255 THEN 255
                   ELSE 0

---------------------------------------------------------------------------
(* chroma_keying.cpp: main and the loop of runChromaKey *)

MaxVideoLen == 2      \* a video decodes to 0..MaxVideoLen frames

\* cap >> frame at position pos of a video of n frames: the frame read (0 when
\* none is left) and the next position.
CapRead(n, pos) ==
    IF pos <= n THEN [frame |-> pos, pos |-> pos + 1] ELSE [frame |-> 0, pos |-> pos]

\* Mutant of CapRewind: the position left where it is.
CapRewindIgnored(seekable, pos) == pos

\* cap.set(cv::CAP_PROP_POS_FRAMES, 0): the next frame delivered is the first.
CapRewind(seekable, pos) == IF seekable THEN 1 ELSE pos

\* static_cast<char>(cv::waitKey(25)) on a platform with 8-bit signed char.
ToChar(code) ==
    LET b == code % 256 IN IF b >= 128 THEN b - 256 ELSE b

\* Size of the video's frames, and the column at which a frame's colour changes.
CkFrameSize == [cols |-> 48, rows |-> 30, split |-> 30]

\* The colour (B, G, R) of a frame left of the split column; right of it every
\* frame has CkRightColour.
FrameColour(run, frame) == IF (run + frame) % 2 = 0 THEN <<0, 255, 0>> ELSE <<40, 200, 30>>

CkRightColour == <<10, 20, 250>>

\* constexpr int radius = 20;
SampleRadius == 20

\* Mutant of PatchRange: the range around v taken without clamping.
PatchRangeUnclamped(v, size) == [lo |-> v - SampleRadius, hi |-> v + SampleRadius + 1]

\* [clamp(v - radius, 0, size - 1), clamp(v + radius + 1, 0, size)), the
\* half-open range of columns or rows sampled around v.
PatchRange(v, size) ==
    [lo |-> IF v - SampleRadius < 0 THEN 0
            ELSE IF size - 1 < v - SampleRadius THEN size - 1 ELSE v - SampleRadius,
     hi |-> IF v + SampleRadius + 1 < 0 THEN 0
            ELSE IF size < v + SampleRadius + 1 THEN size ELSE v + SampleRadius + 1]

\* onMouseSampleColor for a left click at (x, y) on the frame `frame` of the
\* run: the patch ranges, the pixel count and the three averages
\* static_cast<int>(sum / count), in B, G, R order.
onMouseSampleColor(run, frame, x, y) ==
    LET xr     == PatchRange(x, CkFrameSize.cols)
        yr     == PatchRange(y, CkFrameSize.rows)
        rows   == yr.hi - yr.lo
        nLeft  == Cardinality({c \in xr.lo..(xr.hi - 1) : c < CkFrameSize.split})
        nRight == Cardinality({c \in xr.lo..(xr.hi - 1) : c >= CkFrameSize.split})
        count  == rows * (xr.hi - xr.lo)
        left   == FrameColour(run, frame)
    IN  [xr |-> xr, yr |-> yr, count |-> count,
         key |-> [c \in 1..3 |->
                     (rows * (nLeft * left[c] + nRight * CkRightColour[c])) \div count]]

\* Left clicks delivered: three corners of the frame and a point near the split.
CkClicks ==
    {<<0, 0>>, <<CkFrameSize.cols - 1, 0>>,
     <<CkFrameSize.cols - 1, CkFrameSize.rows - 1>>, <<CkFrameSize.split - 1, SampleRadius>>}

\* What createKeyMask .. compositeFrame make of a frame: determined by the
\* frame and the seven parameters.
Composite(run, frame, params) == <<run, frame, params>>

\* Trackbar events delivered: (variable, position).
CkTrackbarEvents == {<<"tolerance", 0>>, <<"tolerance", 100>>, <<"seamless", 1>>}

\* Values cv::waitKey(25) returns: -1, Esc, 'c', Esc with a modifier bit.
CkWaitKeyCodes == {-1, KeyEsc, KeyLowerC, 256 + KeyEsc}

InitChroma ==
    /\ ckPc = "open" /\ ckRun = 1
    /\ ckVideos \in [1..2 -> 0..MaxVideoLen]
    /\ ckSeekable \in BOOLEAN
    /\ ckPos = 0 /\ ckFrame = 0 /\ g_currentFrame = 0 /\ ckParams = ZeroParams
    /\ ckKey = NoKey /\ ckShown = <<>> /\ ckSaved = <<>> /\ ckExit = "none"
    /\ NotCkIdle

\* runChromaKey up to the loop: open the video, read the first frame, load and
\* resize the background, windows and trackbars.
CkOpen ==
    /\ ckPc = "open"
    /\ \E opened \in BOOLEAN, bgLoaded \in BOOLEAN :
          LET r == CapRead(ckVideos[ckRun], 1)
          IN  IF ~opened
              THEN /\ ckPc' = "returned"
                   /\ UNCHANGED <<ckPos, ckFrame>>
              ELSE /\ ckPos' = r.pos
                   /\ ckFrame' = r.frame
                   /\ ckPc' = IF r.frame = 0 \/ ~bgLoaded THEN "returned" ELSE "loop"
    /\ ckKey' = NoKey
    /\ ckSaved' = <<>>
    /\ UNCHANGED <<ckRun, ckVideos, ckSeekable, g_currentFrame, ckParams, ckShown,
                   ckExit, notCkVars>>

\* One turn of `while (running)`: rewind when the frame is empty, process and
\* show, poll the key, save the composite, read the next frame, test `running`.
CkPass(code) ==
    /\ ckPc = "loop"
    /\ LET rewound == IF ckFrame = 0
                      THEN CapRead(ckVideos[ckRun], CapRewind(ckSeekable, ckPos))
                      ELSE [frame |-> ckFrame, pos |-> ckPos]
       IN  IF rewound.frame = 0
           THEN \* break; destroyAllWindows
                /\ ckPc' = "returned"
                /\ ckPos' = rewound.pos
                /\ UNCHANGED <<ckFrame, g_currentFrame, ckKey, ckShown, ckSaved, ckExit>>
           ELSE LET composite == Composite(ckRun, rewound.frame, ckParams)
                    next      == CapRead(ckVideos[ckRun], rewound.pos)
                IN  /\ g_currentFrame' = rewound.frame
                    /\ ckShown' = composite
                    /\ ckKey' = ToChar(code)
                    /\ \E written \in BOOLEAN :
                          IF ~written
                          THEN \* saveImageOrExit: std::exit(EXIT_FAILURE)
                               /\ ckExit' = "EXIT_FAILURE"
                               /\ ckPc' = "exited"
                               /\ ckFrame' = rewound.frame
                               /\ ckPos' = rewound.pos
                               /\ UNCHANGED ckSaved
                          ELSE /\ ckSaved' = composite
                               /\ ckFrame' = next.frame
                               /\ ckPos' = next.pos
                               /\ ckPc' = IF ckKey' = KeyEsc THEN "returned" ELSE "loop"
                               /\ UNCHANGED ckExit
    /\ UNCHANGED <<ckRun, ckVideos, ckSeekable, ckParams, notCkVars>>

\* onTrackbar, delivered while cv::waitKey runs.
CkTrackbar(name, value) ==
    /\ ckPc = "loop" /\ ckShown # <<>> /\ ckShown[1] = ckRun
    /\ ckParams' = [ckParams EXCEPT ![name] = value]
    /\ UNCHANGED <<ckPc, ckRun, ckVideos, ckSeekable, ckPos, ckFrame, g_currentFrame,
                   ckKey, ckShown, ckSaved, ckExit, notCkVars>>

\* onMouseSampleColor with a left click inside the frame, delivered while
\* cv::waitKey runs: the key colour becomes the patch average, setTrackbarPos
\* stores it.
CkSample(x, y) ==
    /\ ckPc = "loop" /\ g_currentFrame # 0 /\ ckShown # <<>> /\ ckShown[1] = ckRun
    /\ LET bgr == onMouseSampleColor(ckRun, g_currentFrame, x, y).key
       IN  ckParams' = [ckParams EXCEPT !.keyB = bgr[1], !.keyG = bgr[2], !.keyR = bgr[3]]
    /\ UNCHANGED <<ckPc, ckRun, ckVideos, ckSeekable, ckPos, ckFrame, g_currentFrame,
                   ckKey, ckShown, ckSaved, ckExit, notCkVars>>

\* main after a runChromaKey call: reset the parameters and start the second
\* demo, or return EXIT_SUCCESS.
CkMainNext ==
    /\ ckPc = "returned"
    /\ IF ckRun = 1
       THEN /\ ckRun' = 2
            /\ ckParams' = ZeroParams
            /\ ckPc' = "open"
            /\ UNCHANGED ckExit
       ELSE /\ ckExit' = "EXIT_SUCCESS"
            /\ ckPc' = "exited"
            /\ UNCHANGED <<ckRun, ckParams>>
    /\ UNCHANGED <<ckVideos, ckSeekable, ckPos, ckFrame, g_currentFrame, ckKey, ckShown,
                   ckSaved, notCkVars>>

NextChroma ==
    \/ CkOpen
    \/ \E code \in CkWaitKeyCodes : CkPass(code)
    \/ \E e \in CkTrackbarEvents : CkTrackbar(e[1], e[2])
    \/ \E p \in CkClicks : CkSample(p[1], p[2])
    \/ CkMainNext

SpecChroma == InitChroma /\ [][NextChroma]_vars

\* C17: a turn of the loop that finds the frame empty rewinds a seekable video
\* and processes its first frame; the loop is left only with Esc read, with
\* the rewound video yielding no frame, or by a failed save ending the
\* process; the turn that reads Esc has saved the composite it showed.
Thm_C17_LoopRewindsAndEndsOnEsc ==
    [][ (\E code \in CkWaitKeyCodes : CkPass(code)) =>
          /\ (ckFrame = 0 /\ ckSeekable) =>
                ckShown' = Composite(ckRun, 1, ckParams)
          /\ ckPc' # "loop" =>
                \/ ckKey' = KeyEsc
                \/ ckExit' = "EXIT_FAILURE"
                \/ /\ ckFrame = 0
                   /\ CapRead(ckVideos[ckRun], CapRewind(ckSeekable, ckPos)).frame = 0
                   /\ ckSaved' = ckSaved
          /\ (ckKey' = KeyEsc /\ ckExit' = "none") =>
                /\ ckPc' = "returned"
                /\ ckSaved' = ckShown'
                /\ ckSaved' = Composite(ckRun, g_currentFrame', ckParams)
          /\ (ckKey' # KeyEsc /\ ckExit' = "none" /\ ckShown' # ckShown) =>
                ckPc' = "loop"
      ]_vars

\* C17 witness: a one-frame video was replayed after a trackbar move (so its
\* frame was processed again after a rewind) and Esc ended the run with that
\* composite saved.
Wit_C17_EscAfterRewindSaved ==
    /\ ckPc = "returned" /\ ckKey = KeyEsc
    /\ ckVideos[ckRun] = 1
    /\ ckParams.tolerance = 100
    /\ ckSaved = Composite(ckRun, 1, ckParams)

---------------------------------------------------------------------------
(* chroma_keying.cpp: createKeyMask *)

HsvShift == 12

\* saturate_cast<int> of a quotient n / d of positive integers (to nearest; no
\* quotient used here lies half way).
RoundDiv(n, d) == (2 * n + d) \div (2 * d)

\* cv::cvtColor(.., cv::COLOR_BGR2HSV) on one 8-bit pixel: V the largest
\* channel, S and H by the fixed-point division tables, H in 0..179.
BGR2HSV(bgr) ==
    LET b == bgr[1]  g == bgr[2]  r == bgr[3]
        v     == SetMax({b, g, r})
        vmin  == SetMin({b, g, r})
        diff  == v - vmin
        sdiv  == IF v = 0 THEN 0 ELSE RoundDiv(255 * 2^HsvShift, v)
        hdiv  == IF diff = 0 THEN 0 ELSE RoundDiv(180 * 2^HsvShift, 6 * diff)
        s     == (diff * sdiv + 2^(HsvShift - 1)) \div 2^HsvShift
        h0    == IF v = r THEN g - b
                 ELSE IF v = g THEN b - r + 2 * diff
                 ELSE r - g + 4 * diff
        h1    == (h0 * hdiv + 2^(HsvShift - 1)) \div 2^HsvShift
        h     == IF h1 < 0 THEN h1 + 180 ELSE h1
    IN  <<h, s, v>>

\* Tolerances at which the double product 180 * (tolerance / 100.0) lies just
\* below the integer 180 * tolerance / 100 (62.99999999999999, 125.99999999999999).
HueProductBelow == {35, 70}

\* static_cast<int>(180 * tol) with tol = tolerance / 100.0 in double arithmetic.
HueDelta(tolerance) ==
    (180 * tolerance) \div 100 - (IF tolerance \in HueProductBelow THEN 1 ELSE 0)

\* static_cast<int>(255 * tol): the double product truncates to the exact floor
\* for every tolerance in 0..100.
SatDelta(tolerance) == (255 * tolerance) \div 100

\* Mutant of Clamp: the value reduced modulo the range instead.
ClampWrapped(v, lo, hi) == lo + ((v - lo) % (hi - lo + 1))

\* std::clamp<int>(v, lo, hi)
Clamp(v, lo, hi) == IF v < lo THEN lo ELSE IF hi < v THEN hi ELSE v

\* cv::inRange on one three-channel pixel.
inRange3(px, lower, upper) ==
    IF \A i \in 1..3 : lower[i] <= px[i] /\ px[i] <= upper[i] THEN 255 ELSE 0

\* createKeyMask(frame, keyBGR, tolerance); the frame is a row of BGR pixels.
\* The locals keyHSV, lower and upper are returned with the mask.
createKeyMask(frame, keyBGR, tolerance) ==
    LET keyHSV == BGR2HSV(keyBGR)
        hDelta == HueDelta(tolerance)
        sDelta == SatDelta(tolerance)
        vDelta == SatDelta(tolerance)
        lower  == <<Clamp(keyHSV[1] - hDelta, 0, 180),
                    Clamp(keyHSV[2] - sDelta, 0, 255),
                    Clamp(keyHSV[3] - vDelta, 0, 255)>>
        upper  == <<Clamp(keyHSV[1] + hDelta, 0, 180),
                    Clamp(keyHSV[2] + sDelta, 0, 255),
                    Clamp(keyHSV[3] + vDelta, 0, 255)>>
    IN  [keyHSV |-> keyHSV, lower |-> lower, upper |-> upper,
         mask |-> [i \in 1..Len(frame) |-> inRange3(BGR2HSV(frame[i]), lower, upper)]]

\* Key colours (B, G, R) tried: black, white, grey, the primaries, a studio
\* green, a dark green, colours whose hue lies next to the 0/180 seam.
KeyColours ==
    {<<0, 0, 0>>, <<255, 255, 255>>, <<128, 128, 128>>, <<0, 255, 0>>, <<0, 0, 255>>,
     <<255, 0, 0>>, <<40, 200, 30>>, <<10, 60, 20>>, <<1, 0, 255>>, <<5, 0, 255>>,
     <<255, 0, 254>>, <<200, 30, 90>>, <<1, 1, 0>>}

\* The frame keyed: a row of pixels.
KeyFrame ==
    <<<<0, 255, 0>>, <<40, 200, 30>>, <<0, 0, 0>>, <<255, 255, 255>>, <<1, 0, 255>>,
      <<200, 30, 90>>, <<30, 60, 220>>>>

InitKeyMask ==
    /\ keyIn \in [frame : {KeyFrame}, keyBGR : KeyColours, tolerance : 0..100]
    /\ keyOut = <<>>
    /\ NotKmIdle

CallCreateKeyMask ==
    /\ keyOut = <<>>
    /\ keyOut' = <<createKeyMask(keyIn.frame, keyIn.keyBGR, keyIn.tolerance)>>
    /\ UNCHANGED <<keyIn, notKmVars>>

NextKeyMask == CallCreateKeyMask

SpecKeyMask == InitKeyMask /\ [][NextKeyMask]_vars

HsvTop == <<180, 255, 255>>

\* C18: the bounds satisfy 0 <= lower <= keyHSV <= upper <= (180, 255, 255)
\* in every component; at tolerance 0 they equal keyHSV; at tolerance 100
\* they are the whole range and every pixel is keyed; a pixel keyed at one
\* tolerance is keyed at every larger one.
Thm_C18_BoundsClampedAndMonotone ==
    keyOut # <<>> =>
        LET o == keyOut[1]
            t == keyIn.tolerance
        IN  /\ \A i \in 1..3 :
                  /\ 0 <= o.lower[i] /\ o.lower[i] <= o.keyHSV[i]
                  /\ o.keyHSV[i] <= o.upper[i] /\ o.upper[i] <= HsvTop[i]
            /\ t = 0 => (o.lower = o.keyHSV /\ o.upper = o.keyHSV)
            /\ t = 100 => /\ o.lower = <<0, 0, 0>> /\ o.upper = HsvTop
                          /\ \A p \in 1..Len(o.mask) : o.mask[p] = 255
            /\ \A t2 \in t..100 :
                  LET o2 == createKeyMask(keyIn.frame, keyIn.keyBGR, t2)
                  IN  /\ \A i \in 1..3 : o2.lower[i] <= o.lower[i] /\ o.upper[i] <= o2.upper[i]
                      /\ \A p \in 1..Len(o.mask) : o.mask[p] = 255 => o2.mask[p] = 255

\* C18 witness: a call at a tolerance strictly between 0 and 100 where the hue
\* bound below and the value bound above were both clamped, with one pixel
\* keyed and another not.
Wit_C18_ClampedAtBothEnds ==
    /\ keyOut # <<>>
    /\ keyIn.tolerance \in 1..99
    /\ keyOut[1].keyHSV[1] - HueDelta(keyIn.tolerance) < 0
    /\ keyOut[1].keyHSV[3] + SatDelta(keyIn.tolerance) > 255
    /\ \E p, q \in 1..Len(keyOut[1].mask) : keyOut[1].mask[p] = 255 /\ keyOut[1].mask[q] = 0

---------------------------------------------------------------------------
(* interactive_scaler.cpp *)

kMaxScale == 100
kMaxType  == 1
KeyLowerS == 115
KeyUpperS == 83

\* The scale factor of onScaleChange times 100:
\* (scaleType == 0) ? 1.0 + scalePercent / 100.0 : std::max(0.01, 1.0 - scalePercent / 100.0)
Factor100(percent, type) ==
    IF type = 0 THEN 100 + percent ELSE SetMax({1, 100 - percent})

\* saturate_cast<int>(side * factor): to nearest, a half to the even integer.
ScaledSide(side, factor100) ==
    LET q == (side * factor100) \div 100
        r == (side * factor100) % 100
    IN  IF 2 * r > 100 THEN q + 1
        ELSE IF 2 * r < 100 THEN q
        ELSE IF q % 2 = 0 THEN q ELSE q + 1

\* cv::resize(src, dst, cv::Size(), f, f, INTER_LINEAR): the destination size
\* is computed from the factor and must not be empty, else cv::Exception.
Resize(src, factor100) ==
    LET w == ScaledSide(src.w, factor100)
        h == ScaledSide(src.h, factor100)
    IN  IF w <= 0 \/ h <= 0
        THEN [thrown |-> TRUE]
        ELSE [thrown |-> FALSE, image |-> [w |-> w, h |-> h, factor100 |-> factor100]]

\* Images loaded: a thumbnail and a larger picture. For these sizes and the
\* trackbar positions below the double product side * factor rounds as the
\* exact quotient does.
ScalerImages == {[w |-> 40, h |-> 30], [w |-> 200, h |-> 100]}

\* Trackbar events delivered: (trackbar, position).
ScalerTrackbarEvents ==
    ({"scale"} \X {0, 50, 99, kMaxScale}) \cup ({"type"} \X (0..kMaxType))

\* Values of cv::waitKey(20): timeout, ESC, 's', 'S', 'c'.
ScalerWaitKeyCodes == {-1, KeyEsc, KeyLowerS, KeyUpperS, KeyLowerC}

InitScaler ==
    /\ scPc = "start" /\ originalImage = <<>> /\ currentScaled = <<>>
    /\ scalePercent = 0 /\ scaleType = 0 /\ scFile = <<>> /\ scKey = NoKey
    /\ scExit = "none"
    /\ NotScIdle

\* main up to the event loop: load or exit, window and trackbars, the initial
\* onScaleChange(0, nullptr).
ScMain ==
    /\ scPc = "start"
    /\ \/ \* loadImageOrExit: cv::imread gave an empty image
          /\ scPc' = "exited" /\ scExit' = "EXIT_FAILURE"
          /\ UNCHANGED <<originalImage, currentScaled>>
       \/ \E img \in ScalerImages :
             LET r == Resize(img, Factor100(scalePercent, scaleType))
             IN  /\ originalImage' = <<img>>
                 /\ IF r.thrown
                    THEN /\ scPc' = "exited" /\ scExit' = "terminate"
                         /\ UNCHANGED currentScaled
                    ELSE /\ scPc' = "loop" /\ currentScaled' = <<r.image>>
                         /\ UNCHANGED scExit
    /\ UNCHANGED <<scalePercent, scaleType, scFile, scKey, notScVars>>

\* A trackbar is moved while cv::waitKey runs: HighGUI stores the position in
\* the bound variable and calls onScaleChange.
ScTrackbar(bar, pos) ==
    /\ scPc = "loop"
    /\ scalePercent' = IF bar = "scale" THEN pos ELSE scalePercent
    /\ scaleType' = IF bar = "type" THEN pos ELSE scaleType
    /\ LET r == Resize(originalImage[1], Factor100(scalePercent', scaleType'))
       IN  IF r.thrown
           THEN /\ scPc' = "exited" /\ scExit' = "terminate"
                /\ UNCHANGED currentScaled
           ELSE /\ currentScaled' = <<r.image>>
                /\ UNCHANGED <<scPc, scExit>>
    /\ UNCHANGED <<originalImage, scFile, scKey, notScVars>>

\* One turn of the event loop on the value cv::waitKey(20) returned.
ScKeyPoll(code) ==
    /\ scPc = "loop"
    /\ scKey' = code
    /\ IF code = KeyEsc
       THEN /\ scPc' = "exited" /\ scExit' = "0"
            /\ UNCHANGED scFile
       ELSE IF code = KeyLowerS \/ code = KeyUpperS
       THEN \E written \in BOOLEAN :
               IF written
               THEN scFile' = currentScaled /\ UNCHANGED <<scPc, scExit>>
               ELSE /\ scPc' = "exited" /\ scExit' = "EXIT_FAILURE"
                    /\ UNCHANGED scFile
       ELSE UNCHANGED <<scPc, scExit, scFile>>
    /\ UNCHANGED <<originalImage, currentScaled, scalePercent, scaleType, notScVars>>

NextScaler ==
    \/ ScMain
    \/ \E e \in ScalerTrackbarEvents : ScTrackbar(e[1], e[2])
    \/ \E code \in ScalerWaitKeyCodes : ScKeyPoll(code)

SpecScaler == InitScaler /\ [][NextScaler]_vars

\* C19 as stated: once the image is loaded, currentScaled is originalImage
\* resized by the factor of the current trackbar positions, whatever trackbar
\* changes were made.
Orig_C19_ScaledByCurrentFactor ==
    originalImage # <<>> =>
        /\ currentScaled # <<>>
        /\ currentScaled[1].factor100 = Factor100(scalePercent, scaleType)
        /\ Resize(originalImage[1], Factor100(scalePercent, scaleType)) =
              [thrown |-> FALSE, image |-> currentScaled[1]]

---------------------------------------------------------------------------
(* autofocus_evaluator.cpp *)

MaxAfFrames == 3      \* a video decodes to 0..MaxAfFrames frames

\* The four focus measures of a frame. Each is a sum of squares or of absolute
\* values over the V channel, so never negative; a frame is given by its tag
\* and the four values.
varAbsLaplacian(crop)      == crop.m[1]
sumModifiedLaplacian(crop) == crop.m[2]
varLocal(crop)             == crop.m[3]
varGradMagnitude(crop)     == crop.m[4]

\* Focus measures of the frames tried: a flat frame, and frames that tie or
\* differ in each measure.
FrameKinds == {<<0, 0, 0, 0>>, <<1, 2, 1, 0>>, <<2, 1, 1, 0>>, <<2, 2, 0, 1>>}

\* Videos: every sequence of 0..MaxAfFrames frames, the i-th tagged i.
AfVideos ==
    UNION {{[i \in 1..n |-> [tag |-> i, m |-> k[i]]] : k \in [1..n -> FrameKinds]} :
           n \in 0..MaxAfFrames}

\* Mutant of Better: a frame equal to the best so far replaces it.
BetterOrEqual(v, bestSoFar) == v >= bestSoFar

\* if (v > best)
Better(v, bestSoFar) == v > bestSoFar

\* One of the four `if (vK > bestK) { bestK = vK; fK = frame.clone(); fbestK = idx; }`
\* on the tracking state st = [heap, best, fbest, f].
Track(st, k, v, i) ==
    IF Better(v, st.best[k])
    THEN LET c == MatClone(st.heap, 1)
         IN  [heap  |-> c.heap,
              best  |-> [st.best EXCEPT ![k] = v],
              fbest |-> [st.fbest EXCEPT ![k] = i],
              f     |-> [st.f EXCEPT ![k] = c.mat]]
    ELSE st

InitFocus ==
    /\ afPc = "start"
    /\ afVideo \in AfVideos
    /\ afHeap = <<>> /\ idx = 0
    /\ best = <<>> /\ fbest = <<>> /\ fMats = <<>> /\ afReport = <<>> /\ afExit = "none"
    /\ NotAfIdle

\* main up to the loop: open the video or return EXIT_FAILURE; the whole frame
\* is the region; accumulators at 0, f1..f4 empty.
AfOpen ==
    /\ afPc = "start"
    /\ \E opened \in BOOLEAN :
          IF opened
          THEN /\ afPc' = "loop"
               /\ afHeap' = <<<<>>>>
               /\ best' = <<0, 0, 0, 0>> /\ fbest' = <<0, 0, 0, 0>>
               /\ fMats' = <<0, 0, 0, 0>>
               /\ UNCHANGED afExit
          ELSE /\ afPc' = "done" /\ afExit' = "EXIT_FAILURE"
               /\ UNCHANGED <<afHeap, best, fbest, fMats>>
    /\ UNCHANGED <<afVideo, idx, afReport, notAfVars>>

\* One turn of `while (cap.read(frame))` that got a frame: the frame is decoded
\* into frame's buffer, measured, compared with the four bests; idx++.
AfFrame ==
    /\ afPc = "loop"
    /\ idx < Len(afVideo)
    /\ LET frame == afVideo[idx + 1]
           h0 == [afHeap EXCEPT ![1] = frame]
           s0 == [heap |-> h0, best |-> best, fbest |-> fbest, f |-> fMats]
           s1 == Track(s0, 1, varAbsLaplacian(frame), idx)
           s2 == Track(s1, 2, sumModifiedLaplacian(frame), idx)
           s3 == Track(s2, 3, varLocal(frame), idx)
           s4 == Track(s3, 4, varGradMagnitude(frame), idx)
       IN  /\ afHeap' = s4.heap
           /\ best' = s4.best
           /\ fbest' = s4.fbest
           /\ fMats' = s4.f
    /\ idx' = idx + 1
    /\ UNCHANGED <<afPc, afVideo, afReport, afExit, notAfVars>>

\* cap.read returns false: the report is printed, the four best frames are
\* concatenated (cv::hconcat rejects an empty f) and shown.
AfFinish ==
    /\ afPc = "loop"
    /\ idx = Len(afVideo)
    /\ afPc' = "done"
    /\ afReport' = <<[bestLine |-> best, frameNumberLine |-> best]>>
    /\ afExit' = IF \E k \in 1..4 : fMats[k] = 0 THEN "terminate" ELSE "EXIT_SUCCESS"
    /\ UNCHANGED <<afVideo, afHeap, idx, best, fbest, fMats, notAfVars>>

NextFocus == AfOpen \/ AfFrame \/ AfFinish

SpecFocus == InitFocus /\ [][NextFocus]_vars

\* The value of measure k on the video's i-th frame.
Measure(k, i) == afVideo[i].m[k]

\* C20: when the whole video has been read, for each measure that is positive
\* on some frame: the stored best is the maximum over the frames, the stored
\* index is the smallest index (from 0) of a frame attaining it, and the
\* stored frame is the frame of that index.
Thm_C20_BestIsFirstMaximum ==
    (afPc = "done" /\ afReport # <<>>) =>
        \A k \in 1..4 :
            (\E i \in 1..Len(afVideo) : Measure(k, i) > 0) =>
                /\ \A i \in 1..Len(afVideo) : Measure(k, i) <= best[k]
                /\ fbest[k] + 1 \in 1..Len(afVideo)
                /\ Measure(k, fbest[k] + 1) = best[k]
                /\ \A i \in 1..fbest[k] : Measure(k, i) < best[k]
                /\ fMats[k] # 0
                /\ afHeap[fMats[k]] = afVideo[fbest[k] + 1]

\* C20 witness: a three-frame video read to its end whose first measure is
\* largest on the second and third frames alike; the second (index 1) is kept.
Wit_C20_TieKeepsEarlierFrame ==
    /\ afPc = "done" /\ afReport # <<>>
    /\ Len(afVideo) = 3
    /\ Measure(1, 2) = Measure(1, 3) /\ Measure(1, 1) < Measure(1, 2)
    /\ fbest[1] = 1
    /\ afHeap[fMats[1]].tag = 2

\* C21 as stated: the values printed on the 'FrameNumber (1..4)' line of the
\* report are the frame indices fbest1..fbest4.
Orig_C21_ReportGivesFrameIndices ==
    afReport # <<>> => afReport[1].frameNumberLine = fbest

---------------------------------------------------------------------------
(* panorama_stitching.cpp *)

MaxDirEntries == 3    \* the scanned directory holds 0..MaxDirEntries entries

\* File names are sequences of character codes; every path of the directory
\* has the same parent, so paths compare as their file names do.
kFileExtension == <<46, 106, 112, 101, 103>>          \* ".jpeg"

\* path::extension(): the file name from its last dot on; empty when there is
\* no dot or the only dot leads the name.
Extension(name) ==
    LET dots == {i \in 1..Len(name) : name[i] = 46}
    IN  IF dots = {} \/ SetMax(dots) = 1 THEN <<>>
        ELSE SubSeq(name, SetMax(dots), Len(name))

\* operator< of std::filesystem::path on two file names of one directory.
PathLess(a, b) ==
    LET n == Min2(Len(a), Len(b))
        d == {i \in 1..n : a[i] # b[i]}
    IN  IF d = {} THEN Len(a) < Len(b) ELSE a[SetMin(d)] < b[SetMin(d)]

\* Insertion of p into an ascending sequence.
RECURSIVE InsertPath(_, _)
InsertPath(p, sorted) ==
    IF sorted = <<>> THEN <<p>>
    ELSE IF PathLess(p, Head(sorted)) THEN <<p>> \o sorted
    ELSE <<Head(sorted)>> \o InsertPath(p, Tail(sorted))

\* Mutant of SortPaths: the vector left in enumeration order.
SortSkipped(files) == files

\* std::sort(imageFiles.begin(), imageFiles.end())
RECURSIVE SortPaths(_)
SortPaths(files) ==
    IF files = <<>> THEN <<>> ELSE InsertPath(Head(files), SortPaths(Tail(files)))

\* The loop of collectImageFiles over the entries as enumerated.
RECURSIVE CollectFrom(_)
CollectFrom(entries) ==
    IF entries = <<>> THEN <<>>
    ELSE LET e == Head(entries)
         IN  IF e.regular /\ Extension(e.name) = kFileExtension
             THEN <<e.name>> \o CollectFrom(Tail(entries))
             ELSE CollectFrom(Tail(entries))

\* The loading loop of main: cv::imread on every path in turn, empty results
\* skipped. readable is the set of names cv::imread decodes.
RECURSIVE LoadValid(_, _)
LoadValid(files, readable) ==
    IF files = <<>> THEN <<>>
    ELSE IF Head(files) \in readable
    THEN <<Head(files)>> \o LoadValid(Tail(files), readable)
    ELSE LoadValid(Tail(files), readable)

\* Mutant of StitchFailed: only ERR_NEED_MORE_IMGS counts as a failure.
StitchFailedNeedMoreOnly(status) == status = "ERR_NEED_MORE_IMGS"

\* status != cv::Stitcher::OK
StitchFailed(status) == status # "OK"

\* cv::Stitcher::Status values.
StitcherStatus ==
    {"OK", "ERR_NEED_MORE_IMGS", "ERR_HOMOGRAPHY_EST_FAIL", "ERR_CAMERA_PARAMS_ADJUST_FAIL"}

\* Directory entries tried: "1.jpeg", "10.jpeg", "2.jpeg" (readable images),
\* "3.jpeg" (unreadable), "4.jpg" (another extension), "5.jpeg" (a directory),
\* ".jpeg" (a regular file whose name has no extension).
DirPool ==
    {[name |-> <<49>> \o kFileExtension,     regular |-> TRUE,  valid |-> TRUE],
     [name |-> <<49, 48>> \o kFileExtension, regular |-> TRUE,  valid |-> TRUE],
     [name |-> <<50>> \o kFileExtension,     regular |-> TRUE,  valid |-> TRUE],
     [name |-> <<51>> \o kFileExtension,     regular |-> TRUE,  valid |-> FALSE],
     [name |-> <<52, 46, 106, 112, 103>>,    regular |-> TRUE,  valid |-> TRUE],
     [name |-> <<53>> \o kFileExtension,     regular |-> FALSE, valid |-> FALSE],
     [name |-> kFileExtension,               regular |-> TRUE,  valid |-> TRUE]}

\* Every enumeration order of every directory of up to MaxDirEntries entries.
Enumerations ==
    UNION {{e \in [1..n -> DirPool] : \A i, j \in 1..n : i # j => e[i] # e[j]} :
           n \in 0..MaxDirEntries}

InitPano ==
    /\ panoPc = "collect"
    /\ panoDirOk \in BOOLEAN
    /\ panoEnum \in Enumerations
    /\ imageFiles = <<>> /\ images = <<>> /\ panoStatus = "none" /\ panoWrites = 0
    /\ panoFile = <<>> /\ panoExit = "none"
    /\ NotPanoIdle

\* main, first part: collectImageFiles inside try/catch, then the empty test.
PanoCollect ==
    /\ panoPc = "collect"
    /\ IF ~panoDirOk
       THEN \* std::runtime_error caught in main
            /\ panoExit' = "EXIT_FAILURE" /\ panoPc' = "done"
            /\ UNCHANGED imageFiles
       ELSE /\ imageFiles' = CollectFrom(panoEnum)
            /\ IF imageFiles' = <<>>
               THEN panoExit' = "EXIT_FAILURE" /\ panoPc' = "done"
               ELSE panoPc' = "load" /\ UNCHANGED panoExit
    /\ UNCHANGED <<panoDirOk, panoEnum, images, panoStatus, panoWrites, panoFile, notPanoVars>>

\* main, second part: sort, load the valid images, test for two.
PanoLoad ==
    /\ panoPc = "load"
    /\ imageFiles' = SortPaths(imageFiles)
    /\ images' = LoadValid(imageFiles', {e.name : e \in {panoEnum[i] : i \in 1..Len(panoEnum)} \cap
                                                        {d \in DirPool : d.valid}})
    /\ IF Len(images') < 2
       THEN panoExit' = "EXIT_FAILURE" /\ panoPc' = "done"
       ELSE panoPc' = "stitch" /\ UNCHANGED panoExit
    /\ UNCHANGED <<panoDirOk, panoEnum, panoStatus, panoWrites, panoFile, notPanoVars>>

\* main, third part: stitcher->stitch and the status test.
PanoStitch(status) ==
    /\ panoPc = "stitch"
    /\ panoStatus' = status
    /\ IF StitchFailed(status)
       THEN panoExit' = "EXIT_FAILURE" /\ panoPc' = "done"
       ELSE panoPc' = "save" /\ UNCHANGED panoExit
    /\ UNCHANGED <<panoDirOk, panoEnum, imageFiles, images, panoWrites, panoFile, notPanoVars>>

\* main, last part: saveImageOrExit and return EXIT_SUCCESS.
PanoSave ==
    /\ panoPc = "save"
    /\ panoWrites' = panoWrites + 1
    /\ panoPc' = "done"
    /\ \E written \in BOOLEAN :
          IF written
          THEN panoFile' = images /\ panoExit' = "EXIT_SUCCESS"
          ELSE panoExit' = "EXIT_FAILURE" /\ UNCHANGED panoFile
    /\ UNCHANGED <<panoDirOk, panoEnum, imageFiles, images, panoStatus, notPanoVars>>

NextPano ==
    \/ PanoCollect
    \/ PanoLoad
    \/ \E status \in StitcherStatus : PanoStitch(status)
    \/ PanoSave

SpecPano == InitPano /\ [][NextPano]_vars

\* The entries of the directory, whatever their enumeration order.
DirEntries == {panoEnum[i] : i \in 1..Len(panoEnum)}

\* Names of the regular files with the target extension that decode.
ValidTargets ==
    {e.name : e \in {d \in DirEntries : d.regular /\ d.valid /\ Extension(d.name) = kFileExtension}}

\* C22: the run ends with success exactly when the directory is valid, two
\* target files decode, the stitcher returned OK and the write succeeded, and
\* then the file is written; every other run ends with failure; the write is
\* attempted only when the first three conditions hold.
Thm_C22_SuccessOnlyWhenAllStepsPass ==
    LET ready == panoDirOk /\ Cardinality(ValidTargets) >= 2 /\ panoStatus = "OK"
    IN  /\ panoWrites > 0 => ready
        /\ panoFile # <<>> => (ready /\ panoWrites = 1)
        /\ panoPc = "done" =>
              /\ panoExit \in {"EXIT_SUCCESS", "EXIT_FAILURE"}
              /\ panoExit = "EXIT_SUCCESS" <=> panoFile # <<>>
              /\ ready => panoWrites = 1
        /\ panoPc # "done" => panoExit = "none"

\* C22 witness: a stitching failure on two valid images ended the run with a
\* failure status and no write.
Wit_C22_StitchFailureNoWrite ==
    /\ panoPc = "done" /\ panoExit = "EXIT_FAILURE"
    /\ Len(images) >= 2 /\ panoStatus = "ERR_HOMOGRAPHY_EST_FAIL"
    /\ panoWrites = 0 /\ panoFile = <<>>

\* C23: once loaded, the images are the decodable regular files with the
\* target extension, each once, in ascending path order; the enumeration
\* order does not enter.
Thm_C23_ImagesInPathOrder ==
    panoPc \in {"stitch", "save"} =>
        /\ {images[i] : i \in 1..Len(images)} = ValidTargets
        /\ Len(images) = Cardinality(ValidTargets)
        /\ \A i \in 1..(Len(images) - 1) : PathLess(images[i], images[i + 1])

\* C23 witness: "2.jpeg" was enumerated before "10.jpeg" and "1.jpeg", with
\* images loaded as "1.jpeg", "10.jpeg", "2.jpeg".
Wit_C23_SortedAgainstEnumeration ==
    /\ panoPc = "stitch"
    /\ Len(panoEnum) = 3
    /\ panoEnum[1].name = <<50>> \o kFileExtension
    /\ images = <<<<49>> \o kFileExtension, <<49, 48>> \o kFileExtension,
                  <<50>> \o kFileExtension>>

---------------------------------------------------------------------------
(* document_scanner.cpp: sortCorners, computeDocumentSize *)

MaxCoord == 2         \* corner coordinates in 0..MaxCoord

Pt(x, y) == [x |-> x, y |-> y]

\* Results std::sort may leave for the comparator a.y < b.y: every arrangement
\* of the elements in which no later element has a smaller y (the order of
\* elements with equal y is not fixed by the standard).
SortedByY(pts) ==
    LET n == Len(pts)
        arrangements == {[i \in 1..n |-> pts[f[i]]] :
                            f \in {g \in [1..n -> 1..n] : \A i, j \in 1..n : i # j => g[i] # g[j]}}
    IN  {s \in arrangements : \A i, j \in 1..n : i < j => ~(s[j].y < s[i].y)}

\* Mutant of OrderPair: the pair left as it is.
OrderPairKept(a, b) == <<a, b>>

\* if (p[0].x > p[1].x) std::swap(p[0], p[1]);
OrderPair(a, b) == IF a.x > b.x THEN <<b, a>> ELSE <<a, b>>

\* sortCorners(pts): the set of vectors it may return.
sortCorners(pts) ==
    IF Len(pts) # 4 THEN {<<>>}
    ELSE {LET top == OrderPair(sorted[1], sorted[2])
              bot == OrderPair(sorted[3], sorted[4])
          IN  <<top[1], top[2], bot[1], bot[2]>> : sorted \in SortedByY(pts)}

\* The square of dist(p1, p2).
Dist2(p1, p2) == (p2.x - p1.x) * (p2.x - p1.x) + (p2.y - p1.y) * (p2.y - p1.y)

\* static_cast<int>(std::round(std::sqrt(n))) for an integer n >= 0: the
\* integer r with (r - 1/2)^2 < n < (r + 1/2)^2.
RoundSqrt(n) ==
    IF n = 0 THEN 0
    ELSE CHOOSE r \in 0..n : (2 * r - 1) * (2 * r - 1) < 4 * n /\ 4 * n < (2 * r + 1) * (2 * r + 1)

\* computeDocumentSize(sortedCorners)
computeDocumentSize(sortedCorners) ==
    IF Len(sortedCorners) # 4 THEN [width |-> 0, height |-> 0]
    ELSE LET h1 == Dist2(sortedCorners[1], sortedCorners[3])
             h2 == Dist2(sortedCorners[2], sortedCorners[4])
             w1 == Dist2(sortedCorners[1], sortedCorners[2])
             w2 == Dist2(sortedCorners[3], sortedCorners[4])
         IN  [width  |-> RoundSqrt(SetMax({w1, w2})),
              height |-> RoundSqrt(SetMax({h1, h2}))]

CornerGrid == {Pt(x, y) : x \in 0..MaxCoord, y \in 0..MaxCoord}

\* Inputs: every vector of four grid points, and vectors of 0, 3 and 5 points.
CornerInputs ==
    [1..4 -> CornerGrid] \cup
    UNION {[1..n -> {Pt(0, 0), Pt(1, MaxCoord)}] : n \in {0, 3, 5}}

InitCorners ==
    /\ cornersIn \in CornerInputs
    /\ cornersOut = <<>>
    /\ NotDocIdle

\* Steps 4 and 5 of main on one quadrilateral.
CallSortCorners ==
    /\ cornersOut = <<>>
    /\ \E sorted \in sortCorners(cornersIn) :
          cornersOut' = <<[sorted |-> sorted, docSize |-> computeDocumentSize(sorted)]>>
    /\ UNCHANGED <<cornersIn, notDocVars>>

NextCorners == CallSortCorners

SpecCorners == InitCorners /\ [][NextCorners]_vars

\* The points of a vector with their multiplicities.
PointBag(v) == [p \in {v[i] : i \in 1..Len(v)} |-> Cardinality({i \in 1..Len(v) : v[i] = p})]

\* C24: for four points the result [TL, TR, BL, BR] is a rearrangement of the
\* input, TL and TR have y <= the y of BL and of BR, TL.x <= TR.x and
\* BL.x <= BR.x; for another size it is empty; and for the four corners of an
\* upright rectangle, in any order, the size computed from that order is the
\* rectangle's width and height.
Thm_C24_CornersOrdered ==
    cornersOut # <<>> =>
        LET r == cornersOut[1].sorted
        IN  IF Len(cornersIn) # 4 THEN r = <<>>
            ELSE /\ Len(r) = 4
                 /\ PointBag(r) = PointBag(cornersIn)
                 /\ \A i \in {1, 2}, j \in {3, 4} : r[i].y <= r[j].y
                 /\ r[1].x <= r[2].x
                 /\ r[3].x <= r[4].x
                 /\ \A x0, x1, y0, y1 \in 0..MaxCoord :
                       (/\ x0 < x1 /\ y0 < y1
                        /\ PointBag(cornersIn) =
                              PointBag(<<Pt(x0, y0), Pt(x1, y0), Pt(x0, y1), Pt(x1, y1)>>))
                       => /\ r = <<Pt(x0, y0), Pt(x1, y0), Pt(x0, y1), Pt(x1, y1)>>
                          /\ cornersOut[1].docSize = [width |-> x1 - x0, height |-> y1 - y0]

\* C24 witness: the corners of a 2 x 1 rectangle given as BR, TL, BL, TR came
\* back as TL, TR, BL, BR with size 2 x 1.
Wit_C24_RectangleReordered ==
    /\ cornersIn = <<Pt(2, 1), Pt(0, 0), Pt(0, 1), Pt(2, 0)>>
    /\ cornersOut # <<>>
    /\ cornersOut[1].sorted = <<Pt(0, 0), Pt(2, 0), Pt(0, 1), Pt(2, 1)>>
    /\ cornersOut[1].docSize = [width |-> 2, height |-> 1]

---------------------------------------------------------------------------
(* document_scanner.cpp: findLargestQuad *)

MaxContours == 3      \* cv::findContours returns 0..MaxContours contours
MaxArea     == 2      \* cv::contourArea in 0..MaxArea

\* Mutant of Skipped: only a strictly smaller contour is skipped.
SkippedIfSmaller(area, maxArea) == area < maxArea

\* if (area <= maxArea) continue;
Skipped(area, maxArea) == area <= maxArea

\* The loop of findLargestQuad from contour i on.
RECURSIVE QuadLoop(_, _, _, _)
QuadLoop(contours, i, maxArea, bestQuad) ==
    IF i > Len(contours) THEN bestQuad
    ELSE LET c == contours[i]
         IN  IF Skipped(c.area, maxArea) THEN QuadLoop(contours, i + 1, maxArea, bestQuad)
             ELSE IF Len(c.approx) = 4 THEN QuadLoop(contours, i + 1, c.area, c.approx)
             ELSE QuadLoop(contours, i + 1, maxArea, bestQuad)

\* findLargestQuad on the contours found: maxArea = 0.0, bestQuad empty.
findLargestQuad(contours) == QuadLoop(contours, 1, 0, <<>>)

\* Polygonal approximations tried: a triangle, two quadrilaterals, a pentagon.
ApproxShapes ==
    {<<Pt(0, 0), Pt(2, 0), Pt(0, 2)>>,
     <<Pt(0, 0), Pt(2, 0), Pt(2, 2), Pt(0, 2)>>,
     <<Pt(1, 0), Pt(2, 1), Pt(1, 2), Pt(0, 1)>>,
     <<Pt(0, 0), Pt(2, 0), Pt(2, 1), Pt(1, 2), Pt(0, 1)>>}

Contours == [area : 0..MaxArea, approx : ApproxShapes]

InitQuad ==
    /\ quadIn \in UNION {[1..n -> Contours] : n \in 0..MaxContours}
    /\ quadOut = <<>>
    /\ NotQuadIdle

CallFindLargestQuad ==
    /\ quadOut = <<>>
    /\ quadOut' = <<findLargestQuad(quadIn)>>
    /\ UNCHANGED <<quadIn, notQuadVars>>

NextQuad == CallFindLargestQuad

SpecQuad == InitQuad /\ [][NextQuad]_vars

\* Indices of the contours whose approximation has four vertices.
QuadIndices == {i \in 1..Len(quadIn) : Len(quadIn[i].approx) = 4}

\* C25: with a four-vertex contour of positive area present, the result is
\* the approximation of the first four-vertex contour of maximum area among
\* the four-vertex contours; otherwise the result is empty.
Thm_C25_LargestQuadFirstOnTies ==
    quadOut # <<>> =>
        IF \E i \in QuadIndices : quadIn[i].area > 0
        THEN LET top   == SetMax({quadIn[i].area : i \in QuadIndices})
                 first == SetMin({i \in QuadIndices : quadIn[i].area = top})
             IN  quadOut[1] = quadIn[first].approx
        ELSE quadOut[1] = <<>>

\* C25 witness: a pentagon of larger area came first, then two different
\* quadrilaterals of equal area; the earlier quadrilateral was returned.
Wit_C25_TieAfterLargerNonQuad ==
    /\ quadOut # <<>>
    /\ Len(quadIn) = 3
    /\ Len(quadIn[1].approx) = 5 /\ quadIn[1].area = 2
    /\ Len(quadIn[2].approx) = 4 /\ Len(quadIn[3].approx) = 4
    /\ quadIn[2].area = 1 /\ quadIn[3].area = 1
    /\ quadIn[2].approx # quadIn[3].approx
    /\ quadOut[1] = quadIn[2].approx

---------------------------------------------------------------------------
(* blemish_removal.cpp: the destination region of the clone *)

\* C26 as stated: whenever onMouse calls seamlessClone (a left click for which
\* selectBestPatch returned a donor), the (2*kDefaultRad+1)-square centred on
\* the click lies inside g_sourceImage.
Orig_C26_CloneRegionInsideImage ==
    [][\A p \in ClickPoints :
          (/\ onMouse(EVENT_LBUTTONDOWN, p[1], p[2])
           /\ HasDonor(heap[g_sourceImage], p))
          => RectInside(Rect(p[1] - kDefaultRad, p[2] - kDefaultRad,
                             2 * kDefaultRad + 1, 2 * kDefaultRad + 1),
                        heap[g_sourceImage])]_vars

---------------------------------------------------------------------------
(* chroma_keying.cpp: the colour sampled by the mouse callback *)

\* C27: when onMouseSampleColor runs on a left click inside the frame,
\* g_currentFrame is the frame of the composite shown last in this run, the
\* patch is not empty and lies inside the frame, the pixel count is positive
\* and the three key components stored lie in 0..255.
Thm_C27_SampleInsideShownFrame ==
    [][\A p \in CkClicks :
          CkSample(p[1], p[2]) =>
              LET s == onMouseSampleColor(ckRun, g_currentFrame, p[1], p[2])
              IN  /\ g_currentFrame # 0
                  /\ ckShown[1] = ckRun /\ ckShown[2] = g_currentFrame
                  /\ 0 <= p[1] /\ p[1] < CkFrameSize.cols
                  /\ 0 <= p[2] /\ p[2] < CkFrameSize.rows
                  /\ 0 <= s.xr.lo /\ s.xr.lo < s.xr.hi /\ s.xr.hi <= CkFrameSize.cols
                  /\ 0 <= s.yr.lo /\ s.yr.lo < s.yr.hi /\ s.yr.hi <= CkFrameSize.rows
                  /\ s.xr.lo <= p[1] /\ p[1] < s.xr.hi
                  /\ s.yr.lo <= p[2] /\ p[2] < s.yr.hi
                  /\ s.count > 0
                  /\ \A c \in 1..3 : s.key[c] \in 0..255
                  /\ ckParams'.keyB = s.key[1] /\ ckParams'.keyG = s.key[2]
                  /\ ckParams'.keyR = s.key[3]]_vars

\* C27 witness: a click in the last column sampled a patch clamped at the
\* right border that spans both colours; the stored key is their weighted
\* average, different from both.
Wit_C27_ClampedPatchAveraged ==
    /\ ckPc = "loop"
    /\ <<ckParams.keyB, ckParams.keyG, ckParams.keyR>> =
          onMouseSampleColor(ckRun, g_currentFrame, CkFrameSize.cols - 1, 0).key
    /\ <<ckParams.keyB, ckParams.keyG, ckParams.keyR>> \notin
          {FrameColour(ckRun, g_currentFrame), CkRightColour, <<0, 0, 0>>}

---------------------------------------------------------------------------
(* qrcode_detection.cpp: main *)

\* Results of qrDecoder.detectAndDecode(IDCard, vertices): no code found (no
\* corners, no text), a code found but not decoded (corners, no text), a code
\* found and decoded.
QrCorners ==
    {<<Pt(0, 0), Pt(2, 0), Pt(2, 2), Pt(0, 2)>>, <<Pt(1, 0), Pt(2, 1), Pt(1, 2), Pt(0, 1)>>,
     <<Pt(0, 0), Pt(1, 0), Pt(2, 2), Pt(0, 1)>>}

QrDetections ==
    {[vertices |-> <<>>, data |-> ""]} \cup
    [vertices : QrCorners, data : {"", "id-1", "id-2"}]

\* Values cv::waitKey(0) returns for the key that closes the view.
QrWaitKeyCodes == {KeyEsc, KeyEnter, KeyLowerC, KeyLowerS}

InitQr ==
    /\ qrPc = "main" /\ vertices = <<>> /\ opencvData = "" /\ qrAccessed = {}
    /\ qrLines = 0 /\ qrLog = <<>> /\ qrKey = NoKey /\ qrFile = FALSE /\ qrExit = "none"
    /\ NotQrIdle

\* main, steps 1 and 2: load the image or exit, detectAndDecode, and the
\* first message.
QrDetect ==
    /\ qrPc = "main"
    /\ \/ \* loadImage: cv::imread gave an empty image
          /\ qrPc' = "done" /\ qrExit' = "EXIT_FAILURE"
          /\ UNCHANGED <<vertices, opencvData, qrLog>>
       \/ \E d \in QrDetections :
             /\ vertices' = d.vertices
             /\ opencvData' = d.data
             /\ qrLog' = <<IF d.data # "" THEN "QR Code Detected" ELSE "QR Code NOT Detected">>
             /\ qrPc' = "draw" /\ UNCHANGED qrExit
    /\ UNCHANGED <<qrAccessed, qrLines, qrKey, qrFile, notQrVars>>

\* main, step 3 up to cv::imshow: prevp = vertices[3], then four lines through
\* vertices[0..3]. On an empty vector the reads are out of bounds: the run
\* either dies on the first read or goes on with whatever the reads gave.
QrDraw ==
    /\ qrPc = "draw"
    /\ IF Len(vertices) = 4
       THEN /\ qrAccessed' = 0..3 /\ qrLines' = 4
            /\ qrPc' = "show" /\ UNCHANGED qrExit
       ELSE \/ /\ qrAccessed' = {3} /\ qrPc' = "done" /\ qrExit' = "SIGSEGV"
               /\ UNCHANGED qrLines
            \/ /\ qrAccessed' = 0..3 /\ qrLines' = 4
               /\ qrPc' = "show" /\ UNCHANGED qrExit
    /\ UNCHANGED <<vertices, opencvData, qrLog, qrKey, qrFile, notQrVars>>

\* main, steps 4 and 5: cv::waitKey(0) returns, the two messages, saveImage.
QrFinish(code) ==
    /\ qrPc = "show"
    /\ qrKey' = code
    /\ qrLog' = qrLog \o <<"QR Code Detected!", "Decoded Data: " \o opencvData>>
    /\ qrPc' = "done"
    /\ \E written \in BOOLEAN :
          IF written THEN qrFile' = TRUE /\ qrExit' = "0"
          ELSE qrExit' = "EXIT_FAILURE" /\ UNCHANGED qrFile
    /\ UNCHANGED <<vertices, opencvData, qrAccessed, qrLines, notQrVars>>

NextQr == QrDetect \/ QrDraw \/ \E code \in QrWaitKeyCodes : QrFinish(code)

SpecQr == InitQr /\ [][NextQr]_vars

\* C28 as stated: elements of vertices are read only when the detection gave
\* four corners, and with an empty vertex list no element is read, no line is
\* drawn and 'QR Code Detected!' is not printed.
Orig_C28_NoVertexReadWithoutCode ==
    /\ qrAccessed # {} => Len(vertices) = 4
    /\ vertices = <<>> =>
          /\ qrAccessed = {}
          /\ qrLines = 0
          /\ \A i \in 1..Len(qrLog) : qrLog[i] # "QR Code Detected!"

---------------------------------------------------------------------------
(* feature_alignment.cpp: matchAndFilter, computeHomography *)

MaxMatches  == 3      \* short matcher results have 0..MaxMatches matches
MaxDistance == 2      \* with distances in 0..MaxDistance

\* FLT_MAX, the distance of a default-constructed cv::DMatch.
FltMax == 2^30

\* cv::DMatch(): what std::vector::resize appends.
DefaultDMatch == [queryIdx |-> -1, trainIdx |-> -1, distance |-> FltMax]

\* static_cast<int>(matches.size() * kGoodMatchRate) with kGoodMatchRate =
\* 0.005f: for sizes up to kMaxFeatures the float product truncates to the
\* exact floor of 0.005 * n.
NGood(n) == (5 * n) \div 1000

\* Results std::sort may leave for the comparator a.distance < b.distance.
\* With all distances different there is one: the element of rank k at place
\* k. Otherwise every arrangement without a descent (the order of matches of
\* equal distance is not fixed).
SortedByDistance(ms) ==
    LET n == Len(ms)
    IN  IF \A i, j \in 1..n : i # j => ms[i].distance # ms[j].distance
        THEN {[k \in 1..n |->
                 ms[CHOOSE i \in 1..n :
                        Cardinality({j \in 1..n : ms[j].distance < ms[i].distance}) = k - 1]]}
        ELSE {s \in {[i \in 1..n |-> ms[f[i]]] :
                        f \in {g \in [1..n -> 1..n] : \A i, j \in 1..n : i # j => g[i] # g[j]}} :
                 \A i, j \in 1..n : i < j => ~(s[j].distance < s[i].distance)}

\* matches.resize(k): the first k elements, default matches appended when the
\* vector is shorter.
ResizeMatches(ms, k) ==
    [i \in 1..k |-> IF i <= Len(ms) THEN ms[i] ELSE DefaultDMatch]

\* matchAndFilter after matcher->match: the vectors it may leave in `matches`.
matchAndFilter(ms) ==
    {ResizeMatches(sorted, SetMax({NGood(Len(ms)), 1})) : sorted \in SortedByDistance(ms)}

\* The index pairs the loop of computeHomography reads kp1 and kp2 with.
HomographyReads(ms) == {<<ms[i].queryIdx, ms[i].trainIdx>> : i \in 1..Len(ms)}

\* A matcher result of n matches with pairwise different distances.
PatternMatches(n) ==
    [i \in 1..n |-> [queryIdx |-> i - 1, trainIdx |-> (3 * i) % n, distance |-> (37 * i) % 401]]

\* Matcher results tried: every short one (query descriptor i matched to one
\* of two train descriptors), and three long ones around the sizes at which
\* 0.5% reaches 1 and 2.
MatcherResults ==
    UNION {{[i \in 1..n |-> [queryIdx |-> i - 1, trainIdx |-> m[i][1], distance |-> m[i][2]]] :
               m \in [1..n -> {0, 1} \X (0..MaxDistance)]} : n \in 0..MaxMatches}
    \cup {PatternMatches(199), PatternMatches(200), PatternMatches(400)}

InitMatch ==
    /\ matchIn \in MatcherResults
    /\ matchOut = <<>>
    /\ NotMatchIdle

\* matchAndFilter on the matcher's result, then the reads of computeHomography.
CallMatchAndFilter ==
    /\ matchOut = <<>>
    /\ \E kept \in matchAndFilter(matchIn) :
          matchOut' = <<[matches |-> kept, read |-> HomographyReads(kept)]>>
    /\ UNCHANGED <<matchIn, notMatchVars>>

NextMatch == CallMatchAndFilter

SpecMatch == InitMatch /\ [][NextMatch]_vars

\* C29 as stated: for every n >= 0 the retained list has max(floor(0.005*n), 1)
\* matches in non-decreasing distance order, each of them a match the matcher
\* returned and none of the dropped matches closer than a retained one, and
\* every index computeHomography reads is the index of a query / train
\* descriptor of a returned match.
Orig_C29_RetainedAreMatcherResults ==
    matchOut # <<>> =>
        LET kept == matchOut[1].matches
            n    == Len(matchIn)
            all  == {matchIn[i] : i \in 1..n}
        IN  /\ Len(kept) = SetMax({NGood(n), 1})
            /\ \A i \in 1..(Len(kept) - 1) : kept[i].distance <= kept[i + 1].distance
            /\ \A i \in 1..Len(kept) : kept[i] \in all
            /\ \A i \in 1..Len(kept), j \in 1..n :
                  matchIn[j].distance < kept[i].distance =>
                      \E k \in 1..Len(kept) : kept[k] = matchIn[j]
            /\ \A r \in matchOut[1].read :
                  \E m \in all : r = <<m.queryIdx, m.trainIdx>>

---------------------------------------------------------------------------
(* roi_selector.cpp: releases without a press *)

\* C30 as stated: a button release received while drawing is false writes no
\* file (no write is attempted and the output file stays as it was), and
\* drawing is TRUE after a press and FALSE after a release.
Orig_C30_ReleaseWithoutPressWritesNothing ==
    [][\A p \in RoiPoints :
          /\ (RoiOnMouse(EVENT_LBUTTONUP, p[1], p[2]) /\ ~state.drawing) =>
                /\ roiOutput' = roiOutput
                /\ roiLog' \notin {"saved", "error"}
          /\ RoiOnMouse(EVENT_LBUTTONUP, p[1], p[2]) => ~state'.drawing
          /\ RoiOnMouse(EVENT_LBUTTONDOWN, p[1], p[2]) => state'.drawing]_vars

====
